---- MODULE Spec2Model ----
(***************************************************************************)
(* A model of swwws: the rotation queue (swwws-common/src/queue.rs), the   *)
(* persisted snapshot (swwws-common/src/state.rs) and the daemon that      *)
(* owns them (swwws-daemon/src/main.rs).                                   *)
(*                                                                         *)
(* Images are the numbers 1..n; the lexical order of paths is the order of *)
(* the numbers.  An absent image (Option::None) is NoImage.                *)
(***************************************************************************)
EXTENDS Naturals, Sequences, FiniteSets, TLC

\* ------------------------------------------------------------------ bounds
\* the largest image set a stand-alone queue is created over
MaxImages == 4
\* the largest image set of the queue that is advanced again and again
MaxAdvImages == 3
\* the largest lookahead capacity (queue size) of a stand-alone queue
MaxCap == 2

\* the largest number of images the wallpaper directory holds
MaxDirImages == 3
\* the same where the directory does not change and only shuffled queues run
MaxShuffledImages == 4
\* the largest number of images of a directory that changes under a running daemon
MaxLiveImages == 2
\* the largest rotation duration (seconds) a configuration sets
MaxDuration == 20
\* the largest rotation duration (seconds) set while the daemon is reloaded
MaxReloadDuration == 2
\* the largest number of groups of a group list, and of outputs of a group,
\* that the effective behavior is computed for
MaxGroups == 2
MaxGroupLen == 2
\* the largest directory the tick loop is followed over step by step, and
\* the iterations of it during which clients send requests
MaxLockImages == 1
MaxLockTicks == 2
\* the worker threads of the IPC server that are followed step by step
MaxWorkers == 2
\* the invocations of the wallpaper tool whose outcomes are followed
MaxAttempts == 4
\* the largest queue_size a configuration sets
MaxQueueSize == 2

\* main: "if save_counter >= 30"
SaveInterval == 30
\* main: "if swww_check_counter >= 30"
CheckInterval == 30
\* main: the sleep before the liveness check is retried, in seconds
RetryWait == 5
\* change_wallpaper: "const MAX_RETRIES: u32 = 3"
MAX_RETRIES == 3
\* handle_ipc_command, Status: the duration taken when there is no first output
DefaultDuration == 300
\* the largest number of images of a directory whose daemon answers Status
MaxStatusImages == 3
\* the seconds of the tick loop that are followed while Status is answered
MaxStatusTicks == 3

\* test_stale_state_cleanup: the age, in hours, past which an entry is stale
MaxAgeHours == 24
\* the hours a stopped daemon stays down at a time
IdleHours == 12

NoImage == 0

Sorting == {"Random", "Ascending", "Descending"}

\* ----------------------------------------------------------- sequences
Range(s) == {s[i] : i \in 1..Len(s)}

Contains(s, x) == \E i \in 1..Len(s) : s[i] = x

\* Vec::remove(0) / VecDeque::pop_front: what is left behind
RemoveFirst(s) == IF s = <<>> THEN <<>> ELSE Tail(s)

\* VecDeque::pop_back: what is left behind
RemoveLast(s) == IF s = <<>> THEN <<>> ELSE SubSeq(s, 1, Len(s) - 1)

\* the first element as an Option
FrontOf(s) == IF s = <<>> THEN NoImage ELSE Head(s)

\* the last element as an Option
BackOf(s) == IF s = <<>> THEN NoImage ELSE s[Len(s)]

\* Iterator::position: the index (from 0) of the first x in s; Len(s) if none
RECURSIVE PositionOf(_, _)
PositionOf(s, x) ==
    IF s = <<>> THEN 0
    ELSE IF Head(s) = x THEN 0
    ELSE 1 + PositionOf(Tail(s), x)

\* every order of the elements of the set S
RECURSIVE PermsOf(_)
PermsOf(S) ==
    IF S = {} THEN {<<>>}
    ELSE UNION {{<<x>> \o p : p \in PermsOf(S \ {x})} : x \in S}

\* every order a shuffle of s (distinct paths) can produce
Perms(s) == PermsOf(Range(s))

\* slice::sort: insertion of x into an ascending sequence (stable)
RECURSIVE InsertAsc(_, _)
InsertAsc(s, x) ==
    IF s = <<>> THEN <<x>>
    ELSE IF x < Head(s) THEN <<x>> \o s
    ELSE <<Head(s)>> \o InsertAsc(Tail(s), x)

RECURSIVE SortAsc(_)
SortAsc(s) == IF s = <<>> THEN <<>> ELSE InsertAsc(SortAsc(RemoveLast(s)), BackOf(s))

\* slice::sort_by(|a, b| b.cmp(a))
RECURSIVE InsertDesc(_, _)
InsertDesc(s, x) ==
    IF s = <<>> THEN <<x>>
    ELSE IF x > Head(s) THEN <<x>> \o s
    ELSE <<Head(s)>> \o InsertDesc(Tail(s), x)

RECURSIVE SortDesc(_)
SortDesc(s) == IF s = <<>> THEN <<>> ELSE InsertDesc(SortDesc(RemoveLast(s)), BackOf(s))

\* the match on self.sorting in initialize and refill; sh is the order the
\* shuffle produces, one of Perms(s)
ApplySorting(sorting, s, sh) ==
    CASE sorting = "Random" -> sh
      [] sorting = "Ascending" -> SortAsc(s)
      [] sorting = "Descending" -> SortDesc(s)

\* the orders the random number generator may be asked for when s is sorted
Shuffles(sorting, s) == IF sorting = "Random" THEN Perms(s) ELSE {<<>>}

\* ------------------------------------------------------------- the queue
\* the while loop of refill: move images from the pool to the buffer while
\* the buffer is shorter than size
RECURSIVE FillBuffer(_)
FillBuffer(qu) ==
    IF Len(qu.buffer) < qu.size /\ qu.images # <<>>
    THEN FillBuffer([qu EXCEPT !.buffer = Append(@, Head(qu.images)),
                               !.images = Tail(@)])
    ELSE qu

\* the condition of the restart in refill, after the first loop
RestartDue(qu) == qu.buffer = <<>> /\ qu.images = <<>> /\ qu.tail # <<>>

\* refill without the restart of an exhausted queue
refill_no_restart(qu, sh) == FillBuffer(qu)

refill(qu, sh) ==
    LET filled == FillBuffer(qu)
    IN IF RestartDue(filled)
       THEN FillBuffer([filled EXCEPT
                !.images = ApplySorting(filled.sorting, filled.tail, sh),
                !.tail = <<>>])
       ELSE filled

\* the shuffles refill may draw: one per order of the tail when it restarts
RefillShuffles(qu) ==
    IF RestartDue(FillBuffer(qu)) THEN Shuffles(qu.sorting, qu.tail) ELSE {<<>>}

\* Queue::initialize on the struct Queue::new builds; sh is the initial shuffle
initialize(qsize, sorting, images, sh) ==
    LET sorted == ApplySorting(sorting, images, sh)
    IN refill([buffer |-> <<>>,
               current |-> FrontOf(sorted),
               tail |-> <<>>,
               size |-> qsize,
               sorting |-> sorting,
               images |-> RemoveFirst(sorted)], <<>>)

\* Queue::new, for a non-empty images (an empty one gives None)
new(qsize, sorting, images, sh) == initialize(qsize, sorting, images, sh)

\* Queue::next up to the refill: current to the tail, buffer front to current
PushAndPop(qu) ==
    [qu EXCEPT !.tail = IF qu.current # NoImage THEN Append(@, qu.current) ELSE @,
               !.current = FrontOf(qu.buffer),
               !.buffer = RemoveFirst(@)]

next(qu, sh) ==
    LET refilled == refill(PushAndPop(qu), sh)
    IN IF refilled.current = NoImage /\ refilled.buffer # <<>>
       THEN [refilled EXCEPT !.current = Head(refilled.buffer),
                             !.buffer = Tail(@)]
       ELSE refilled

NextShuffles(qu) == RefillShuffles(PushAndPop(qu))

\* previous that forgets to put current back in front of the buffer
previous_dropping(qu) ==
    [qu EXCEPT !.current = BackOf(qu.tail), !.tail = RemoveLast(@)]

previous(qu) ==
    [qu EXCEPT !.buffer = IF qu.current # NoImage THEN <<qu.current>> \o @ ELSE @,
               !.current = BackOf(qu.tail),
               !.tail = RemoveLast(@)]

current_image(qu) == qu.current

current_position(qu) == Len(qu.tail)

size(qu) == Len(qu.tail) + Len(qu.buffer) + (IF qu.current # NoImage THEN 1 ELSE 0)

get_sorting(qu) == qu.sorting

get_all_images(qu) ==
    qu.tail \o (IF qu.current # NoImage THEN <<qu.current>> ELSE <<>>)
            \o qu.buffer \o qu.images

\* the for loop of set_position: move up to n images from the pool to the tail
RECURSIVE MoveToTail(_, _)
MoveToTail(qu, n) ==
    IF n = 0 THEN qu
    ELSE MoveToTail(IF qu.images # <<>>
                    THEN [qu EXCEPT !.tail = Append(@, Head(qu.images)),
                                    !.images = Tail(@)]
                    ELSE qu, n - 1)

\* set_position up to its refill
SeekBeforeRefill(qu, position) ==
    LET cleared == [qu EXCEPT !.current = NoImage, !.buffer = <<>>, !.tail = <<>>]
        moved == MoveToTail(cleared, position)
    IN IF position >= Len(cleared.images) THEN cleared
       ELSE [moved EXCEPT !.current = FrontOf(moved.images),
                          !.images = RemoveFirst(@)]

\* the boolean set_position returns
set_position_ok(qu, position) == position < Len(qu.images)

\* the queue set_position leaves behind
set_position(qu, position, sh) ==
    IF set_position_ok(qu, position)
    THEN refill(SeekBeforeRefill(qu, position), sh)
    ELSE SeekBeforeRefill(qu, position)

SetPositionShuffles(qu, position) ==
    IF set_position_ok(qu, position)
    THEN RefillShuffles(SeekBeforeRefill(qu, position))
    ELSE {<<>>}

\* ------------------------------------------------- configuration and world
\* the outputs a configuration or the wallpaper service may name
Outputs == {"o1", "o2"}

\* Option<String> of a path: the wallpaper directory, a directory that holds
\* no image, or none
NoPath == "none"
WallpaperDir == "dir"
EmptyDir == "empty"

\* Config::get_output_config: the resolved settings of one output
get_output_config(config, output_name) == config.outputs[output_name]

\* an effective behavior that stays Grouped, without groups, when the
\* configuration has no group list
get_effective_monitor_behavior_strict(config) ==
    CASE config.monitor_behavior = "Grouped" /\ config.monitor_groups # <<>> ->
            [variant |-> "Grouped", groups |-> config.monitor_groups[1]]
      [] OTHER ->
            [variant |-> config.monitor_behavior, groups |-> <<>>]

\* Config::get_effective_monitor_behavior: the variant, and for Grouped the list
get_effective_monitor_behavior(config) ==
    CASE config.monitor_behavior = "Grouped" /\ config.monitor_groups # <<>> ->
            [variant |-> "Grouped", groups |-> config.monitor_groups[1]]
      [] config.monitor_behavior = "Grouped" /\ config.monitor_groups = <<>> ->
            [variant |-> "Independent", groups |-> <<>>]
      [] OTHER ->
            [variant |-> config.monitor_behavior, groups |-> <<>>]

\* Config::validate_monitor_behavior: a group list, when there is one, is not
\* empty, has no empty group and names no output twice
validate_monitor_behavior(config) ==
    \/ config.monitor_groups = <<>>
    \/ LET groups == config.monitor_groups[1]
       IN /\ groups # <<>>
          /\ \A i \in 1..Len(groups) : groups[i] # <<>>
          /\ \A i, j \in 1..Len(groups) : \A k \in 1..Len(groups[i]) :
                \A l \in 1..Len(groups[j]) :
                    groups[i][k] = groups[j][l] => (i = j /\ k = l)

\* Config::load of the configuration file (<<>>: missing or not parseable):
\* the configuration it holds when that validates, else an error (<<>>)
load(file) ==
    IF file = <<>> THEN <<>>
    ELSE IF validate_monitor_behavior(file[1]) THEN file ELSE <<>>

\* ImageDiscovery::discover_images of a directory whose walk yields listing:
\* an error when nothing is found, else the images in walk order
\* the walk of the directory at path, given what the wallpaper directory holds
Walk(path, dir_listing) == IF path = EmptyDir THEN <<>> ELSE dir_listing

discover_images(listing) ==
    IF listing = <<>> THEN [ok |-> FALSE, images |-> <<>>]
    ELSE [ok |-> TRUE, images |-> listing]

\* ------------------------------------------------------ persisted snapshot
\* Instant::now() and Utc::now() as the time elapsed since they were taken
Now == 0

\* state.rs DaemonState::new
PersistentNew == [outputs |-> <<>>, global_paused |-> FALSE]

\* a map with key k set to v (HashMap::insert); maps are functions on a set
\* of output names, the empty map is <<>>
Insert(map, k, v) ==
    [x \in (DOMAIN map) \cup {k} |-> IF x = k THEN v ELSE map[x]]

update_output_state(ps, output_name, cur, position, qsize, sorting, images) ==
    [ps EXCEPT !.outputs = Insert(@, output_name,
        [current_image |-> cur,
         queue_position |-> position,
         queue_size |-> qsize,
         sorting |-> sorting,
         images |-> images,
         last_updated |-> Now])]

\* state.rs DaemonState::cleanup_stale_state: the entries that are at most
\* max_age_hours old are retained
cleanup_stale_state(ps, max_age_hours) ==
    [ps EXCEPT !.outputs =
        [o \in {x \in DOMAIN ps.outputs :
                    ps.outputs[x].last_updated <= max_age_hours} |-> ps.outputs[o]]]

\* state.rs DaemonState::load of the state file (<<>>: no file)
PersistentLoad(file) == IF file = <<>> THEN PersistentNew ELSE file[1]

\* ------------------------------------------------------------ daemon state
\* main.rs DaemonState::new: everything empty, paused as the snapshot says
DaemonStateNew(file) ==
    [queues |-> <<>>,
     timers |-> <<>>,
     groups |-> <<>>,
     shared_queue |-> <<>>,
     shared_timer |-> <<>>,
     paused |-> PersistentLoad(file).global_paused,
     persistent_state |-> PersistentLoad(file)]

\* every queue Queue::new can build over a non-empty images
NewQueues(qsize, sorting, images) ==
    {new(qsize, sorting, images, sh) : sh \in Shuffles(sorting, images)}

\* every outcome of queue.set_position(position)
SetPositions(qu, position) ==
    {[ok |-> set_position_ok(qu, position),
      queue |-> set_position(qu, position, sh)] :
        sh \in SetPositionShuffles(qu, position)}

\* state with a queue and a fresh timer installed for output_name
InstallQueue(state, output_name, qu) ==
    [state EXCEPT !.queues = Insert(@, output_name, qu),
                  !.timers = Insert(@, output_name, Now)]

\* the Random arm of restore_queue_from_state: the states it can install
RestoreRandom(state, output_name, saved, discovered_images) ==
    IF saved.current_image # NoImage
       /\ Contains(discovered_images, saved.current_image)
    THEN {InstallQueue(state, output_name, r.queue) :
            r \in {x \in UNION {SetPositions(qu,
                        PositionOf(discovered_images, saved.current_image)) :
                      qu \in NewQueues(saved.queue_size, saved.sorting,
                                       discovered_images)} : x.ok}}
    ELSE {}

\* an ordered arm that compares the two lists as sets and skips the seek
RestoreOrdered_by_set(state, output_name, saved, discovered_images) ==
    IF Range(discovered_images) = Range(saved.images)
    THEN {InstallQueue(state, output_name, qu) :
            qu \in NewQueues(saved.queue_size, saved.sorting, discovered_images)}
    ELSE {}

\* the Ascending | Descending arm of restore_queue_from_state
RestoreOrdered(state, output_name, saved, discovered_images) ==
    IF discovered_images = saved.images
    THEN {InstallQueue(state, output_name, r.queue) :
            r \in {x \in UNION {SetPositions(qu, saved.queue_position) :
                      qu \in NewQueues(saved.queue_size, saved.sorting,
                                       discovered_images)} : x.ok}}
    ELSE {}

\* DaemonState::restore_queue_from_state: every outcome, as the value
\* returned and the state left behind
restore_queue_from_state(state, output_name, discovered_images) ==
    LET saved == state.persistent_state.outputs[output_name]
        installed ==
            IF state.shared_queue # <<>> THEN {}
            ELSE IF output_name \notin DOMAIN state.persistent_state.outputs THEN {}
            ELSE IF saved.sorting = "Random"
                 THEN RestoreRandom(state, output_name, saved, discovered_images)
                 ELSE RestoreOrdered(state, output_name, saved, discovered_images)
        \* with Random sorting some shuffles may let set_position succeed and
        \* others not
        refused ==
            \/ state.shared_queue # <<>>
            \/ output_name \notin DOMAIN state.persistent_state.outputs
            \/ IF saved.sorting = "Random"
               THEN \/ saved.current_image = NoImage
                    \/ ~Contains(discovered_images, saved.current_image)
                    \/ \E qu \in NewQueues(saved.queue_size, saved.sorting,
                                           discovered_images) :
                         \E x \in SetPositions(qu,
                                PositionOf(discovered_images, saved.current_image)) :
                            ~x.ok
               ELSE \/ discovered_images # saved.images
                    \/ \E qu \in NewQueues(saved.queue_size, saved.sorting,
                                           discovered_images) :
                         \E x \in SetPositions(qu, saved.queue_position) : ~x.ok
    IN {[restored |-> TRUE, state |-> st] : st \in installed}
       \cup (IF refused THEN {[restored |-> FALSE, state |-> state]} ELSE {})

\* ------------------------------------------------------- wallpaper applies
\* the for loop of change_wallpaper from attempt on (counted from 0), where
\* outcomes[k] tells whether the k-th invocation of the tool succeeds: the
\* invocations made in all and whether the wallpaper was set
RECURSIVE RetryLoop(_, _)
RetryLoop(outcomes, attempt) ==
    IF attempt >= MAX_RETRIES THEN [invocations |-> attempt, ok |-> FALSE]
    ELSE IF outcomes[attempt + 1] THEN [invocations |-> attempt + 1, ok |-> TRUE]
    ELSE RetryLoop(outcomes, attempt + 1)

\* change_wallpaper, awaited by the tick loop
change_wallpaper(outcomes) == RetryLoop(outcomes, 0)

\* change_wallpaper_sync, called by the Next arms: a thread that runs the
\* tool once
change_wallpaper_sync(outcomes) == [invocations |-> 1, ok |-> outcomes[1]]

\* execute_wallpaper_change, called by the Previous arms: the same
execute_wallpaper_change(outcomes) == [invocations |-> 1, ok |-> outcomes[1]]

\* set_wallpaper_sync, called when queues are built: the same
set_wallpaper_sync(outcomes) == [invocations |-> 1, ok |-> outcomes[1]]

\* ------------------------------------------------------- building queues
\* one wallpaper-apply handed to the external tool
Apply(output_name, image) == [output |-> output_name, image |-> image]

\* the applies of one image to each output of a list, in order
ApplyAll(outs, image) == [i \in 1..Len(outs) |-> Apply(outs[i], image)]

\* the elements of s that are elements of t, in the order of s
RECURSIVE Filter(_, _)
Filter(s, t) ==
    IF s = <<>> THEN <<>>
    ELSE (IF Contains(t, Head(s)) THEN <<Head(s)>> ELSE <<>>) \o Filter(Tail(s), t)

\* output_name is a member of some live group
InAnyGroup(state, output_name) ==
    \E i \in 1..Len(state.groups) : Contains(state.groups[i].outputs, output_name)

\* initialize_output_queue / initialize_output_queue_sync on w = the daemon
\* state and the applies issued so far; listing is what the directory walk
\* yields.  Every outcome.
initialize_output_queue(w, output_name, config, listing) ==
    LET output_config == get_output_config(config, output_name)
        discovered == discover_images(Walk(output_config.path, listing))
    IN IF output_config.path = NoPath THEN {w}
       ELSE IF ~discovered.ok THEN {w}
       ELSE UNION {
            IF r.restored THEN {[w EXCEPT !.state = r.state]}
            ELSE {[state |-> InstallQueue(w.state, output_name, qu),
                   applied |-> IF current_image(qu) # NoImage
                               THEN Append(w.applied,
                                           Apply(output_name, current_image(qu)))
                               ELSE w.applied] :
                    qu \in NewQueues(output_config.queue_size,
                                     output_config.sorting, discovered.images)} :
            r \in restore_queue_from_state(w.state, output_name, discovered.images)}

\* the loop "for output_name in swww_outputs" over initialize_output_queue,
\* skipping the members of live groups when ungrouped_only
RECURSIVE InitializeEach(_, _, _, _, _)
InitializeEach(ws, outs, config, listing, ungrouped_only) ==
    IF outs = <<>> THEN ws
    ELSE InitializeEach(
            UNION {IF ungrouped_only /\ InAnyGroup(w.state, Head(outs)) THEN {w}
                   ELSE initialize_output_queue(w, Head(outs), config, listing) :
                   w \in ws},
            Tail(outs), config, listing, ungrouped_only)

\* the first member of a group that is a known output with a configured
\* path, as a sequence of at most one output
RECURSIVE FirstWithPath(_, _, _)
FirstWithPath(group_outputs, config, swww_outputs) ==
    IF group_outputs = <<>> THEN <<>>
    ELSE IF Contains(swww_outputs, Head(group_outputs))
            /\ get_output_config(config, Head(group_outputs)).path # NoPath
         THEN <<Head(group_outputs)>>
         ELSE FirstWithPath(Tail(group_outputs), config, swww_outputs)

\* the Grouped arm of initialize_monitor_behavior from group number idx on:
\* every outcome as ok (no error) and the state reached
RECURSIVE InitializeGroups(_, _, _, _, _, _)
InitializeGroups(state, groups, idx, config, swww_outputs, listing) ==
    IF idx > Len(groups) THEN {[ok |-> TRUE, state |-> state]}
    ELSE LET first == FirstWithPath(groups[idx], config, swww_outputs)
             config_data == get_output_config(config, first[1])
             discovered == discover_images(Walk(config_data.path, listing))
         IN IF first = <<>>
            THEN InitializeGroups(state, groups, idx + 1, config, swww_outputs, listing)
            ELSE IF ~discovered.ok THEN {[ok |-> FALSE, state |-> state]}
            ELSE UNION {InitializeGroups(
                            [state EXCEPT !.groups = Append(@,
                                [name |-> idx - 1,
                                 outputs |-> Filter(groups[idx], swww_outputs),
                                 queue |-> qu,
                                 timer |-> Now])],
                            groups, idx + 1, config, swww_outputs, listing) :
                        qu \in NewQueues(config_data.queue_size,
                                         config_data.sorting, discovered.images)}

\* initialize_monitor_behavior: every outcome as ok and the state reached
initialize_monitor_behavior(state, config, swww_outputs, listing) ==
    LET behavior == get_effective_monitor_behavior(config)
        output_config == get_output_config(config, swww_outputs[1])
        discovered == discover_images(Walk(output_config.path, listing))
    IN CASE behavior.variant = "Independent" -> {[ok |-> TRUE, state |-> state]}
         [] behavior.variant = "Synchronized" ->
              IF swww_outputs = <<>> THEN {[ok |-> FALSE, state |-> state]}
              ELSE IF output_config.path = NoPath THEN {[ok |-> FALSE, state |-> state]}
              ELSE IF ~discovered.ok THEN {[ok |-> FALSE, state |-> state]}
              ELSE {[ok |-> TRUE,
                     state |-> [state EXCEPT !.shared_queue = <<qu>>,
                                             !.shared_timer = <<Now>>]] :
                      qu \in NewQueues(output_config.queue_size,
                                       output_config.sorting, discovered.images)}
         [] behavior.variant = "Grouped" ->
              InitializeGroups(state, behavior.groups, 1, config, swww_outputs, listing)

\* the applies of each group's current image to its members, group by group
RECURSIVE ApplyGroups(_)
ApplyGroups(groups) ==
    IF groups = <<>> THEN <<>>
    ELSE (IF current_image(Head(groups).queue) # NoImage
          THEN ApplyAll(Head(groups).outputs, current_image(Head(groups).queue))
          ELSE <<>>) \o ApplyGroups(Tail(groups))

\* the match on the behavior that follows initialize_monitor_behavior in main
\* and in reinitialize_daemon_state_sync: initial wallpapers and the queues
\* of the outputs that rotate on their own
InitializeQueues(w, config, swww_outputs, listing) ==
    LET behavior == get_effective_monitor_behavior(config)
    IN CASE behavior.variant = "Independent" ->
              InitializeEach({w}, swww_outputs, config, listing, FALSE)
         [] behavior.variant = "Synchronized" ->
              IF w.state.shared_queue # <<>>
                 /\ current_image(w.state.shared_queue[1]) # NoImage
              THEN {[w EXCEPT !.applied = @ \o ApplyAll(swww_outputs,
                            current_image(w.state.shared_queue[1]))]}
              ELSE {w}
         [] behavior.variant = "Grouped" ->
              InitializeEach({[w EXCEPT !.applied = @ \o ApplyGroups(w.state.groups)]},
                             swww_outputs, config, listing, TRUE)

\* a rebuild that does not clear the state it starts from
reinitialize_daemon_state_sync_keeping(state, config, swww_outputs, listing) ==
    UNION {
      IF ~r.ok THEN {[ok |-> FALSE, state |-> r.state, applied |-> <<>>]}
      ELSE {[ok |-> TRUE, state |-> w.state, applied |-> w.applied] :
              w \in InitializeQueues([state |-> r.state, applied |-> <<>>],
                                     config, swww_outputs, listing)} :
      r \in initialize_monitor_behavior(state, config, swww_outputs, listing)}

\* reinitialize_daemon_state_sync: every outcome as ok (no error), the state
\* left behind and the applies issued
reinitialize_daemon_state_sync(state, config, swww_outputs, listing) ==
    LET cleared == [state EXCEPT !.queues = <<>>, !.timers = <<>>, !.groups = <<>>,
                                 !.shared_queue = <<>>, !.shared_timer = <<>>]
    IN UNION {
         IF ~r.ok THEN {[ok |-> FALSE, state |-> r.state, applied |-> <<>>]}
         ELSE {[ok |-> TRUE, state |-> w.state, applied |-> w.applied] :
                 w \in InitializeQueues([state |-> r.state, applied |-> <<>>],
                                        config, swww_outputs, listing)} :
         r \in initialize_monitor_behavior(cleared, config, swww_outputs, listing)}

\* the validation that ends the initialisation in main
HasWallpaperManagement(state) ==
    state.queues # <<>> \/ state.shared_queue # <<>> \/ state.groups # <<>>

\* main up to the start of the tick loop, given a loaded configuration, a
\* reachable wallpaper service reporting swww_outputs, the state file and the
\* directory listing: every outcome as ok (the daemon runs), state and applies
main_initialize(config, swww_outputs, file, listing) ==
    UNION {
      IF ~r.ok THEN {[ok |-> FALSE, state |-> r.state, applied |-> <<>>]}
      ELSE {[ok |-> HasWallpaperManagement(w.state),
             state |-> w.state, applied |-> w.applied] :
              w \in InitializeQueues([state |-> r.state, applied |-> <<>>],
                                     config, swww_outputs, listing)} :
      r \in initialize_monitor_behavior(DaemonStateNew(file), config,
                                        swww_outputs, listing)}

\* DaemonState::save_state's loop: the snapshot with an entry for every
\* independent queue that has a current image (outs: the keys still to visit)
RECURSIVE SyncQueues(_, _, _)
SyncQueues(ps, queues, outs) ==
    IF outs = {} THEN ps
    ELSE LET o == CHOOSE x \in outs : TRUE
             qu == queues[o]
         IN SyncQueues(
              IF current_image(qu) # NoImage
              THEN update_output_state(ps, o, current_image(qu),
                       current_position(qu), size(qu), get_sorting(qu),
                       get_all_images(qu))
              ELSE ps,
              queues, outs \ {o})

\* DaemonState::save_state: the daemon state with its snapshot brought up to
\* date; the snapshot is also what is written to the state file
save_state(state) ==
    [state EXCEPT !.persistent_state =
        [SyncQueues(@, state.queues, DOMAIN state.queues)
            EXCEPT !.global_paused = state.paused]]

\* ------------------------------------------------------------ rotation
\* every queue queue.next() can leave behind
NextQueues(qu) == {next(qu, sh) : sh \in NextShuffles(qu)}

\* timer.elapsed() >= target_duration
Expired(timer, target_duration) == timer >= target_duration

\* the rotation of one independent output in the tick loop and in
\* handle_next_for_output: next(), and on an image the apply and a fresh timer
RotateOutput(w, output_name) ==
    IF output_name \notin DOMAIN w.state.queues THEN {w}
    ELSE {IF current_image(qu) # NoImage
          THEN [state |-> [w.state EXCEPT !.queues[output_name] = qu,
                                          !.timers = Insert(@, output_name, Now)],
                applied |-> Append(w.applied, Apply(output_name, current_image(qu)))]
          ELSE [w EXCEPT !.state.queues[output_name] = qu] :
          qu \in NextQueues(w.state.queues[output_name])}

\* RotateOutput for every output of a set, skipping group members when
\* ungrouped_only is set
RECURSIVE RotateOutputs(_, _, _)
RotateOutputs(ws, outs, ungrouped_only) ==
    IF outs = {} THEN ws
    ELSE LET o == CHOOSE x \in outs : TRUE
         IN RotateOutputs(
              UNION {IF ungrouped_only /\ InAnyGroup(w.state, o) THEN {w}
                     ELSE RotateOutput(w, o) : w \in ws},
              outs \ {o}, ungrouped_only)

\* the rotation of the shared queue, applied to each output of outs
RotateShared(w, outs) ==
    IF w.state.shared_queue = <<>> THEN {w}
    ELSE {IF current_image(qu) # NoImage
          THEN [state |-> [w.state EXCEPT !.shared_queue = <<qu>>,
                                          !.shared_timer = <<Now>>],
                applied |-> w.applied \o ApplyAll(outs, current_image(qu))]
          ELSE [w EXCEPT !.state.shared_queue = <<qu>>] :
          qu \in NextQueues(w.state.shared_queue[1])}

\* the rotation of group number idx
RotateGroup(w, idx) ==
    {IF current_image(qu) # NoImage
     THEN [state |-> [w.state EXCEPT !.groups[idx].queue = qu,
                                     !.groups[idx].timer = Now],
           applied |-> w.applied \o ApplyAll(w.state.groups[idx].outputs,
                                             current_image(qu))]
     ELSE [w EXCEPT !.state.groups[idx].queue = qu] :
     qu \in NextQueues(w.state.groups[idx].queue)}

\* "for group in &mut state_guard.groups" of the tick loop from group idx on:
\* a group rotates when its timer has run the duration of its first output
RECURSIVE TickGroups(_, _, _)
TickGroups(ws, idx, config) ==
    IF ws = {} \/ idx > Len((CHOOSE w \in ws : TRUE).state.groups) THEN ws
    ELSE TickGroups(
           UNION {IF Expired(w.state.groups[idx].timer,
                        get_output_config(config, w.state.groups[idx].outputs[1]).duration)
                  THEN RotateGroup(w, idx) ELSE {w} : w \in ws},
           idx + 1, config)

\* the outputs whose independent timer has run its configured duration
expired_outputs(state, config) ==
    {o \in DOMAIN state.timers :
        Expired(state.timers[o], get_output_config(config, o).duration)}

\* the rotation check of one tick: the match on the behavior of the
\* configuration main loaded at startup
RotationCheck(w, config, swww_outputs) ==
    LET behavior == get_effective_monitor_behavior(config)
        expired == expired_outputs(w.state, config)
    IN CASE behavior.variant = "Independent" -> RotateOutputs({w}, expired, FALSE)
         [] behavior.variant = "Synchronized" ->
              IF w.state.shared_timer # <<>>
                 /\ Expired(w.state.shared_timer[1],
                            get_output_config(config, swww_outputs[1]).duration)
              THEN RotateShared(w, swww_outputs)
              ELSE {w}
         [] behavior.variant = "Grouped" ->
              RotateOutputs(TickGroups({w}, 1, config), expired, TRUE)

\* ------------------------------------------------------------- retreat
\* handle_previous_for_output: previous(), and on an image the apply and a
\* fresh timer
RetreatOutput(w, output_name) ==
    IF output_name \notin DOMAIN w.state.queues THEN w
    ELSE LET qu == previous(w.state.queues[output_name])
         IN IF current_image(qu) # NoImage
            THEN [state |-> [w.state EXCEPT !.queues[output_name] = qu,
                                            !.timers = Insert(@, output_name, Now)],
                  applied |-> Append(w.applied, Apply(output_name, current_image(qu)))]
            ELSE [w EXCEPT !.state.queues[output_name] = qu]

RECURSIVE RetreatOutputs(_, _, _)
RetreatOutputs(w, outs, ungrouped_only) ==
    IF outs = {} THEN w
    ELSE LET o == CHOOSE x \in outs : TRUE
         IN RetreatOutputs(IF ungrouped_only /\ InAnyGroup(w.state, o) THEN w
                           ELSE RetreatOutput(w, o),
                           outs \ {o}, ungrouped_only)

\* Previous on the shared queue, applied to each output of outs
RetreatShared(w, outs) ==
    IF w.state.shared_queue = <<>> THEN w
    ELSE LET qu == previous(w.state.shared_queue[1])
         IN IF current_image(qu) # NoImage
            THEN [state |-> [w.state EXCEPT !.shared_queue = <<qu>>,
                                            !.shared_timer = <<Now>>],
                  applied |-> w.applied \o ApplyAll(outs, current_image(qu))]
            ELSE [w EXCEPT !.state.shared_queue = <<qu>>]

\* Previous on every group from group idx on
RECURSIVE RetreatGroups(_, _)
RetreatGroups(w, idx) ==
    IF idx > Len(w.state.groups) THEN w
    ELSE LET qu == previous(w.state.groups[idx].queue)
         IN RetreatGroups(
              IF current_image(qu) # NoImage
              THEN [state |-> [w.state EXCEPT !.groups[idx].queue = qu,
                                              !.groups[idx].timer = Now],
                    applied |-> w.applied \o ApplyAll(w.state.groups[idx].outputs,
                                                      current_image(qu))]
              ELSE [w EXCEPT !.state.groups[idx].queue = qu],
              idx + 1)

\* Next on every group from group idx on, whatever its timer
RECURSIVE AdvanceGroups(_, _)
AdvanceGroups(ws, idx) ==
    IF ws = {} \/ idx > Len((CHOOSE w \in ws : TRUE).state.groups) THEN ws
    ELSE AdvanceGroups(UNION {RotateGroup(w, idx) : w \in ws}, idx + 1)

\* the behavior handle_ipc_command infers from the live state
current_behavior(state) ==
    IF state.shared_queue # <<>> THEN "Synchronized"
    ELSE IF state.groups # <<>> THEN "Grouped"
    ELSE "Independent"

\* ProcessExecutor::get_swww_outputs, with an error read as no outputs
QueryOutputs(service) == IF service.up THEN service.outputs ELSE <<>>

\* a set of output names as a list (the order a HashMap yields its keys in)
RECURSIVE AsList(_)
AsList(S) ==
    IF S = {} THEN <<>>
    ELSE LET x == CHOOSE y \in S : TRUE IN <<x>> \o AsList(S \ {x})

\* a Next arm that goes by the live behavior even when an output is named
HandleNext_ignoring_target(w, target, service) ==
    CASE current_behavior(w.state) = "Independent" ->
            RotateOutputs({w}, DOMAIN w.state.queues, FALSE)
      [] current_behavior(w.state) = "Synchronized" ->
            RotateShared(w, IF QueryOutputs(service) = <<>>
                            THEN AsList(DOMAIN w.state.queues)
                            ELSE QueryOutputs(service))
      [] current_behavior(w.state) = "Grouped" ->
            RotateOutputs(AdvanceGroups({w}, 1), DOMAIN w.state.queues, TRUE)

\* the Next arm of handle_ipc_command: every outcome
HandleNext(w, target, service) ==
    IF target # "none" THEN RotateOutput(w, target)
    ELSE CASE current_behavior(w.state) = "Independent" ->
                RotateOutputs({w}, DOMAIN w.state.queues, FALSE)
           [] current_behavior(w.state) = "Synchronized" ->
                RotateShared(w, IF QueryOutputs(service) = <<>>
                                THEN AsList(DOMAIN w.state.queues)
                                ELSE QueryOutputs(service))
           [] current_behavior(w.state) = "Grouped" ->
                RotateOutputs(AdvanceGroups({w}, 1), DOMAIN w.state.queues, TRUE)

\* the Previous arm of handle_ipc_command
HandlePrevious(w, target, service) ==
    IF target # "none" THEN RetreatOutput(w, target)
    ELSE CASE current_behavior(w.state) = "Independent" ->
                RetreatOutputs(w, DOMAIN w.state.queues, FALSE)
           [] current_behavior(w.state) = "Synchronized" ->
                RetreatShared(w, QueryOutputs(service))
           [] current_behavior(w.state) = "Grouped" ->
                RetreatOutputs(RetreatGroups(w, 1), DOMAIN w.state.queues, TRUE)

\* a Reload arm that rebuilds the state whether or not the behavior changed
HandleReload_always_rebuilding(st, new_config, service, dir_listing) ==
    LET new_behavior == get_effective_monitor_behavior(new_config)
    IN IF new_behavior.variant = "Grouped" /\ new_behavior.groups = <<>>
       THEN {[response |-> "Error", state |-> st, applied |-> <<>>]}
       ELSE IF ~service.up
       THEN {[response |-> "Error", state |-> st, applied |-> <<>>]}
       ELSE IF service.outputs = <<>>
       THEN {[response |-> "Error", state |-> st, applied |-> <<>>]}
       ELSE {[response |-> IF r.ok THEN "Success" ELSE "Error",
              state |-> r.state, applied |-> r.applied] :
               r \in reinitialize_daemon_state_sync(st, new_config,
                                                    service.outputs, dir_listing)}

\* the Reload arm of handle_ipc_command on the configuration it re-reads:
\* every outcome as the response, the state left behind and the applies
HandleReload(st, new_config, service, dir_listing) ==
    LET new_behavior == get_effective_monitor_behavior(new_config)
    IN IF new_behavior.variant = "Grouped" /\ new_behavior.groups = <<>>
       THEN {[response |-> "Error", state |-> st, applied |-> <<>>]}
       ELSE IF ~service.up
       THEN {[response |-> "Error", state |-> st, applied |-> <<>>]}
       ELSE IF service.outputs = <<>>
       THEN {[response |-> "Error", state |-> st, applied |-> <<>>]}
       ELSE IF current_behavior(st) # new_behavior.variant
       THEN {[response |-> IF r.ok THEN "Success" ELSE "Error",
              state |-> r.state, applied |-> r.applied] :
               r \in reinitialize_daemon_state_sync(st, new_config,
                                                    service.outputs, dir_listing)}
       ELSE {[response |-> "Success", state |-> st, applied |-> <<>>]}

\* the longest rotation duration a configuration sets
LongestDuration(cfg) ==
    CHOOSE d \in {cfg.outputs[o].duration : o \in Outputs} :
        \A o \in Outputs : cfg.outputs[o].duration <= d

\* time passing: a timer has run secs longer (elapsed times are kept up to
\* horizon, the longest duration a timer is compared with)
Later(timer, secs, horizon) ==
    IF timer + secs > horizon THEN horizon ELSE timer + secs

\* every timer of the daemon state has run secs longer
AdvanceTime(st, secs, horizon) ==
    [st EXCEPT
        !.timers = [o \in DOMAIN st.timers |-> Later(st.timers[o], secs, horizon)],
        !.shared_timer = [i \in DOMAIN st.shared_timer |->
                            Later(st.shared_timer[i], secs, horizon)],
        !.groups = [i \in DOMAIN st.groups |->
                        [st.groups[i] EXCEPT !.timer = Later(@, secs, horizon)]]]

\* --------------------------------------------------------------- state
VARIABLES
    q,        \* a stand-alone Queue
    qorder,   \* the order Queue::initialize gave the image set of q
    qop,      \* the last operation on q: "new", "next", "previous", "set_position"
    qarg,     \* the position the last set_position was given
    qret,     \* the image the last next or previous returned (NoImage: None)
    qok,      \* what the last set_position returned
    adv,      \* the number of next calls on q so far, modulo the number of images
    phase,         \* "down": no daemon process; "running": main is in its tick loop
    config_file,   \* the configuration file: <<config>>, or <<>> when missing or unreadable
    listing,       \* what a walk of the wallpaper directory yields, in walk order
    swww,          \* the wallpaper service: [up, outputs] as swww query reports
    config,        \* main's config, loaded once at startup
    swww_outputs,  \* main's swww_outputs, queried once at startup
    state,         \* the DaemonState behind the mutex
    state_file,    \* the state file: <<snapshot>>, or <<>> when there is none
    save_counter,        \* main's save_counter
    swww_check_counter,  \* main's swww_check_counter
    applied,       \* the wallpaper-applies the last step issued, in order
    last,          \* the last step: what ran, for which output, and its response
    lock,          \* the state mutex: <<>> when free, else <<its holder>>
    status,        \* the Status handler: where it is and what it has read
    tick,          \* the tick loop inside an iteration: the applies it awaits
    request,       \* the IPC request whose worker waits for the mutex, if any
    workers,       \* the worker threads of the IPC server: where each is in its handler
    arg,           \* the input of the function called last, <<>> before a call
    result         \* what that call returned

qvars == <<q, qorder, qop, qarg, qret, qok, adv>>

envvars == <<config_file, listing, swww>>

dvars == <<phase, config, swww_outputs, state, state_file, save_counter,
           swww_check_counter, applied, last>>

svars == <<lock, status>>

tvars == <<tick, request, workers>>

pvars == <<arg, result>>

vars == <<qvars, envvars, dvars, svars, tvars, pvars>>

\* the image list 1..n, as discovery hands it over
RECURSIVE Iota(_)
Iota(n) == IF n = 0 THEN <<>> ELSE Append(Iota(n - 1), n)

\* a queue created by Queue::new over n images in any input order
QFresh(minCap, maxImages) ==
    \E n \in 1..maxImages, sorting \in Sorting, cap \in minCap..MaxCap :
      \E images \in Perms(Iota(n)) :
        \E sh \in Shuffles(sorting, images) :
            /\ q = new(cap, sorting, images, sh)
            /\ qorder = ApplySorting(sorting, images, sh)
            /\ qop = "new"
            /\ qarg = 0
            /\ qret = NoImage
            /\ qok = FALSE
            /\ adv = 0

\* no daemon: the values the daemon's variables keep under the queue's
\* specifications
NoStep == [cmd |-> "none", output |-> "none", response |-> "none"]
NoConfig == <<>>
NoService == [up |-> FALSE, outputs |-> <<>>]

\* the tick loop between two iterations
TickIdle == [pc |-> "idle", pending |-> <<>>, attempt |-> 0, save_due |-> FALSE]

\* no Status request is being handled and none has been answered
StatusIdle ==
    [pc |-> "idle", began |-> <<>>, config |-> <<>>, entities |-> <<>>, i |-> 0,
     current_image |-> <<>>, remaining |-> 0, statuses |-> <<>>]

\* the worker threads followed step by step, none of them started
Workers == 1..MaxWorkers
NoWorkers == [w \in Workers |-> [pc |-> "idle", view |-> <<>>]]

ProcessDown ==
    /\ phase = "down"
    /\ config = NoConfig
    /\ swww_outputs = <<>>
    /\ state = DaemonStateNew(<<>>)
    /\ save_counter = 0
    /\ swww_check_counter = 0
    /\ applied = <<>>
    /\ last = NoStep
    /\ lock = <<>>
    /\ status = StatusIdle
    /\ tick = TickIdle
    /\ request = <<>>
    /\ workers = NoWorkers

\* nothing is running and no function has been called on its own
DaemonDown ==
    /\ ProcessDown
    /\ arg = <<>>
    /\ result = <<>>

\* an environment with nothing in it
EnvIdle ==
    /\ config_file = <<>>
    /\ listing = <<>>
    /\ swww = NoService
    /\ state_file = <<>>

DaemonIdle ==
    /\ DaemonDown
    /\ EnvIdle

\* no stand-alone queue under the daemon's specifications
QueueIdle ==
    /\ q = new(1, "Ascending", <<1>>, <<>>)
    /\ qorder = <<1>>
    /\ qop = "new"
    /\ qarg = 0
    /\ qret = NoImage
    /\ qok = FALSE
    /\ adv = 0

\* queue.next()
QNext ==
    \E sh \in NextShuffles(q) :
        /\ q' = next(q, sh)
        /\ qret' = current_image(q')
        /\ qop' = "next"
        /\ adv' = (adv + 1) % Len(qorder)
        /\ UNCHANGED <<qorder, qarg, qok, envvars, dvars, svars, tvars, pvars>>

\* queue.previous()
QPrevious ==
    /\ q' = previous(q)
    /\ qret' = current_image(q')
    /\ qop' = "previous"
    /\ UNCHANGED <<qorder, qarg, qok, adv, envvars, dvars, svars, tvars, pvars>>

\* queue.set_position(n) on a freshly created queue
QSetPosition ==
    /\ qop = "new"
    /\ \E n \in 0..(MaxImages + 1) :
         \E sh \in SetPositionShuffles(q, n) :
            /\ q' = set_position(q, n, sh)
            /\ qok' = set_position_ok(q, n)
            /\ qarg' = n
            /\ qop' = "set_position"
            /\ UNCHANGED <<qorder, qret, adv, envvars, dvars, svars, tvars, pvars>>

\* ------------------------------------------------------------ the daemon
\* what a step leaves in last
Step(cmd, output, response) == [cmd |-> cmd, output |-> output, response |-> response]

\* "counter += 1", kept up to the interval it is compared with
Bump(counter, interval) == IF counter + 1 >= interval THEN interval ELSE counter + 1

\* main from its first line to the tick loop; an Err from main ends the process
Startup ==
    /\ phase = "down"
    /\ \E r \in (IF load(config_file) = <<>> \/ ~swww.up \/ swww.outputs = <<>>
                 THEN {[ok |-> FALSE, state |-> state, applied |-> <<>>]}
                 ELSE main_initialize(load(config_file)[1], swww.outputs, state_file,
                                      listing)) :
         IF r.ok
         THEN /\ phase' = "running"
              /\ config' = load(config_file)[1]
              /\ swww_outputs' = swww.outputs
              /\ state' = r.state
              /\ save_counter' = 0
              /\ swww_check_counter' = 0
              /\ applied' = r.applied
              /\ last' = Step("Startup", "none", "Success")
         ELSE /\ applied' = <<>>
              /\ last' = Step("Startup", "none", "Error")
              /\ UNCHANGED <<phase, config, swww_outputs, state, save_counter,
                             swww_check_counter>>
    /\ UNCHANGED <<state_file, qvars, envvars, svars, tvars, pvars>>

\* the daemon process is killed: nothing of it is left but the state file
Kill ==
    /\ phase # "down"
    /\ phase' = "down"
    /\ config' = NoConfig
    /\ swww_outputs' = <<>>
    /\ state' = DaemonStateNew(<<>>)
    /\ save_counter' = 0
    /\ swww_check_counter' = 0
    /\ applied' = <<>>
    /\ last' = NoStep
    /\ lock' = <<>>
    /\ status' = StatusIdle
    /\ tick' = TickIdle
    /\ request' = <<>>
    /\ workers' = NoWorkers
    /\ UNCHANGED <<state_file, qvars, envvars, pvars>>

\* an iteration that goes on to the rotation check and the save while paused
TickBody_ignoring_pause(st, save_due) ==
    IF lock # <<>> THEN {[state |-> st, applied |-> <<>>, saved |-> FALSE]}
    ELSE
    {[state |-> IF save_due THEN save_state(w.state) ELSE w.state,
      applied |-> w.applied,
      saved |-> save_due] :
        w \in RotationCheck([state |-> st, applied |-> <<>>], config, swww_outputs)}

\* one iteration of the tick loop from try_lock on: nothing when the mutex is
\* held, else the pause check, the rotation check and the periodic save.
\* Every outcome.
TickBody(st, save_due) ==
    IF lock # <<>> THEN {[state |-> st, applied |-> <<>>, saved |-> FALSE]}
    ELSE IF st.paused THEN {[state |-> st, applied |-> <<>>, saved |-> FALSE]}
    ELSE {[state |-> IF save_due THEN save_state(w.state) ELSE w.state,
           applied |-> w.applied,
           saved |-> save_due] :
            w \in RotationCheck([state |-> st, applied |-> <<>>], config, swww_outputs)}

\* the end of an iteration with outcome r of TickBody
TickEnd(r) ==
    /\ state' = r.state
    /\ state_file' = IF r.saved THEN <<r.state.persistent_state>> ELSE state_file
    /\ applied' = r.applied
    /\ last' = Step("Tick", "none", "none")
    /\ phase' = "running"
    /\ UNCHANGED <<config, swww_outputs, qvars, envvars, svars, tvars, pvars>>

\* one iteration of the tick loop, a second after the one before; when the
\* liveness check is due and fails the iteration sleeps before it goes on
Tick ==
    /\ phase = "running"
    /\ LET st == AdvanceTime(state, 1, LongestDuration(config))
           sc == Bump(save_counter, SaveInterval)
           cc == Bump(swww_check_counter, CheckInterval)
       IN IF cc >= CheckInterval /\ ~swww.up
          THEN /\ phase' = "retrying"
               /\ state' = st
               /\ save_counter' = sc
               /\ swww_check_counter' = 0
               /\ applied' = <<>>
               /\ last' = Step("Tick", "none", "none")
               /\ UNCHANGED <<config, swww_outputs, state_file, qvars, envvars,
                              svars, tvars, pvars>>
          ELSE \E r \in TickBody(st, sc >= SaveInterval) :
                 /\ TickEnd(r)
                 /\ save_counter' = IF r.saved THEN 0 ELSE sc
                 /\ swww_check_counter' = IF cc >= CheckInterval THEN 0 ELSE cc

\* the iteration goes on after its sleep: the second liveness check, and
\* "continue" when that fails too
TickRetry ==
    /\ phase = "retrying"
    /\ LET st == AdvanceTime(state, RetryWait, LongestDuration(config))
       IN IF ~swww.up
          THEN /\ phase' = "running"
               /\ state' = st
               /\ applied' = <<>>
               /\ last' = Step("Tick", "none", "none")
               /\ UNCHANGED <<config, swww_outputs, state_file, save_counter,
                              swww_check_counter, qvars, envvars, svars, tvars, pvars>>
          ELSE \E r \in TickBody(st, save_counter >= SaveInterval) :
                 /\ TickEnd(r)
                 /\ save_counter' = IF r.saved THEN 0 ELSE save_counter
                 /\ UNCHANGED swww_check_counter

\* the IPC server thread runs from the end of initialisation on
Serving == phase \in {"running", "retrying"}

\* handle_ipc_command from state.lock() to its return, the mutex being free:
\* the state it leaves, the applies it issued and its response.  It answers
\* the request that waits for the mutex, when there is one.
IpcEnd(st, issued, step) ==
    /\ lock = <<>>
    /\ request \in {<<>>, <<[cmd |-> step.cmd, output |-> step.output]>>}
    /\ request' = <<>>
    /\ state' = st
    /\ applied' = issued
    /\ last' = step
    /\ UNCHANGED <<phase, config, swww_outputs, state_file, save_counter,
                   swww_check_counter, tick, workers, qvars, envvars, svars, pvars>>

\* a handler that has dropped the queues before its configuration fails to load
LoadFailed_after_clear(cmd, target) ==
    IpcEnd([state EXCEPT !.queues = <<>>, !.timers = <<>>, !.groups = <<>>,
                         !.shared_queue = <<>>, !.shared_timer = <<>>],
           <<>>, Step(cmd, target, "Error"))

\* handle_ipc_command when its Config::load fails, whatever the command
LoadFailed(cmd, target) == IpcEnd(state, <<>>, Step(cmd, target, "Error"))

\* handle_ipc_command(Next { output })
IpcNext ==
    /\ Serving
    /\ \E target \in Outputs \cup {"none"} :
         IF load(config_file) = <<>> THEN LoadFailed("Next", target)
         ELSE \E w \in HandleNext([state |-> state, applied |-> <<>>], target, swww) :
                IpcEnd(w.state, w.applied, Step("Next", target, "Success"))

\* handle_ipc_command(Previous { output })
IpcPrevious ==
    /\ Serving
    /\ \E target \in Outputs \cup {"none"} :
         IF load(config_file) = <<>> THEN LoadFailed("Previous", target)
         ELSE LET w == HandlePrevious([state |-> state, applied |-> <<>>], target, swww)
              IN IpcEnd(w.state, w.applied, Step("Previous", target, "Success"))

\* handle_ipc_command(Pause)
IpcPause ==
    /\ Serving
    /\ IF load(config_file) = <<>> THEN LoadFailed("Pause", "none")
       ELSE IpcEnd([state EXCEPT !.paused = TRUE], <<>>,
                   Step("Pause", "none", "Success"))

\* handle_ipc_command(Resume)
IpcResume ==
    /\ Serving
    /\ IF load(config_file) = <<>> THEN LoadFailed("Resume", "none")
       ELSE IpcEnd([state EXCEPT !.paused = FALSE], <<>>,
                   Step("Resume", "none", "Success"))

\* handle_ipc_command(TogglePause)
IpcTogglePause ==
    /\ Serving
    /\ IF load(config_file) = <<>> THEN LoadFailed("TogglePause", "none")
       ELSE IpcEnd([state EXCEPT !.paused = ~@], <<>>,
                   Step("TogglePause", "none", "Success"))

\* handle_ipc_command(Reload)
IpcReload ==
    /\ Serving
    /\ IF load(config_file) = <<>> THEN LoadFailed("Reload", "none")
       ELSE \E r \in HandleReload(state, load(config_file)[1], swww, listing) :
              IpcEnd(r.state, r.applied, Step("Reload", "none", r.response))

\* ------------------------------------------------------------ Status
\* "state.lock().unwrap()": the mutex as who holds it now
MutexLock_none(who) == <<>>

MutexLock(who) == <<who>>

\* the rows of a Status response in the order the arm pushes them: the output
\* a row is for, the suffix of its name, and where its queue lives (an
\* output's own queue, the shared queue, or group number index)
RECURSIVE GroupRows(_, _)
GroupRows(groups, idx) ==
    IF idx > Len(groups) THEN <<>>
    ELSE [k \in 1..Len(groups[idx].outputs) |->
            [output |-> groups[idx].outputs[k], suffix |-> "group",
             group |-> <<groups[idx].name>>, kind |-> "group", index |-> idx]]
         \o GroupRows(groups, idx + 1)

QueueRows(outs, suffix) ==
    [k \in 1..Len(outs) |->
        [output |-> outs[k], suffix |-> suffix, group |-> <<>>,
         kind |-> "queue", index |-> 0]]

StatusRows(st, service) ==
    CASE current_behavior(st) = "Independent" ->
            QueueRows(AsList(DOMAIN st.queues), "none")
      [] current_behavior(st) = "Synchronized" ->
            [k \in 1..Len(QueryOutputs(service)) |->
                [output |-> QueryOutputs(service)[k], suffix |-> "sync",
                 group |-> <<>>, kind |-> "shared", index |-> 0]]
      [] current_behavior(st) = "Grouped" ->
            GroupRows(st.groups, 1)
            \o QueueRows(AsList({o \in DOMAIN st.queues : ~InAnyGroup(st, o)}),
                         "independent")

\* the queue a row reads, as an Option: none when the state no longer has it
QueueOfRow(st, row) ==
    CASE row.kind = "queue" ->
            IF row.output \in DOMAIN st.queues THEN <<st.queues[row.output]>> ELSE <<>>
      [] row.kind = "shared" -> st.shared_queue
      [] row.kind = "group" ->
            IF row.index <= Len(st.groups) THEN <<st.groups[row.index].queue>> ELSE <<>>

\* the time the timer of a row has run, zero when there is no timer
ElapsedOfRow(st, row) ==
    CASE row.kind = "queue" ->
            IF row.output \in DOMAIN st.timers THEN st.timers[row.output] ELSE 0
      [] row.kind = "shared" ->
            IF st.shared_timer = <<>> THEN 0 ELSE st.shared_timer[1]
      [] row.kind = "group" ->
            IF row.index <= Len(st.groups) THEN st.groups[row.index].timer ELSE 0

\* the duration a row's timer is measured against: the output's own for an
\* output's queue, else that of the first output the service reports (shared)
\* or of the group's first output
TargetDurationOfRow(st, row, cfg, service) ==
    LET firsts == CASE row.kind = "queue" -> <<row.output>>
                    [] row.kind = "shared" -> QueryOutputs(service)
                    [] row.kind = "group" ->
                         IF row.index <= Len(st.groups)
                         THEN st.groups[row.index].outputs ELSE <<>>
    IN IF firsts = <<>> THEN DefaultDuration
       ELSE get_output_config(cfg, firsts[1]).duration

\* "remaining": what is left of target_duration, as whole seconds
Remaining(elapsed, target_duration) ==
    IF elapsed >= target_duration THEN 0 ELSE target_duration - elapsed

\* Path::file_name of an image of the wallpaper directory, whose images are
\* named by their numbers: the number without the directory
file_name(image) == image

\* "queue.current_image().map(file_name)"
ImageOfRow(st, row) ==
    IF QueueOfRow(st, row) = <<>> \/ current_image(QueueOfRow(st, row)[1]) = NoImage
    THEN <<>>
    ELSE <<file_name(current_image(QueueOfRow(st, row)[1]))>>

\* the shared queue and a group are read once for all their rows: row i is
\* served by what was read for the row before it
SameQueueAsBefore(rows, i) ==
    /\ i > 1
    /\ rows[i].kind # "queue"
    /\ rows[i - 1].kind = rows[i].kind
    /\ rows[i - 1].index = rows[i].index

\* OutputStatus of a row: the image and the time left read before, and the
\* position, the size and the pause flag read as the struct is built
OutputStatus(st, row, image, remaining) ==
    [name |-> [output |-> row.output, suffix |-> row.suffix, group |-> row.group],
     current_image |-> image,
     queue_position |-> IF QueueOfRow(st, row) = <<>> THEN 0
                        ELSE current_position(QueueOfRow(st, row)[1]),
     queue_size |-> IF QueueOfRow(st, row) = <<>> THEN 0
                    ELSE size(QueueOfRow(st, row)[1]),
     timer_remaining |-> <<remaining>>,
     paused |-> st.paused]

\* the Status handler moves on by itself: the daemon state, the counters of
\* the tick loop and the world stay
StatusStep ==
    UNCHANGED <<phase, config, swww_outputs, state, state_file, save_counter,
                swww_check_counter, qvars, envvars, tvars, pvars>>

\* handle_ipc_command(Status) from state.lock() to the match on the behavior
\* the state shows: the mutex taken, the configuration loaded, the rows set
StatusBegin ==
    /\ Serving
    /\ status.pc = "idle"
    /\ IF load(config_file) = <<>> THEN LoadFailed("Status", "none")
       ELSE /\ lock = <<>>
            /\ lock' = MutexLock("Status")
            /\ status' = [pc |-> "image",
                          began |-> <<state>>,
                          config |-> load(config_file),
                          entities |-> StatusRows(state, swww),
                          i |-> 1,
                          current_image |-> <<>>,
                          remaining |-> 0,
                          statuses |-> <<>>]
            /\ UNCHANGED <<applied, last>>
            /\ StatusStep

\* the Status arm for row i, up to "let current_image": the time left and
\* the current image
StatusImage ==
    /\ status.pc = "image"
    /\ status.i <= Len(status.entities)
    /\ LET row == status.entities[status.i]
       IN status' =
            IF SameQueueAsBefore(status.entities, status.i)
            THEN [status EXCEPT !.pc = "push"]
            ELSE [status EXCEPT
                    !.pc = "push",
                    !.remaining = Remaining(ElapsedOfRow(state, row),
                                            TargetDurationOfRow(state, row,
                                                status.config[1], swww)),
                    !.current_image = ImageOfRow(state, row)]
    /\ UNCHANGED <<lock, applied, last>>
    /\ StatusStep

\* the Status arm for row i, "statuses.push(OutputStatus { .. })"
StatusPush ==
    /\ status.pc = "push"
    /\ status' = [status EXCEPT
                    !.pc = "image",
                    !.i = @ + 1,
                    !.statuses = Append(@, OutputStatus(state,
                                               status.entities[status.i],
                                               status.current_image,
                                               status.remaining))]
    /\ UNCHANGED <<lock, applied, last>>
    /\ StatusStep

\* the end of the Status arm: the response, and the guard dropped
StatusEnd ==
    /\ status.pc = "image"
    /\ status.i > Len(status.entities)
    /\ last' = [cmd |-> "Status", output |-> "none", response |-> "Status",
                outputs |-> status.statuses, paused |-> state.paused]
    /\ applied' = <<>>
    /\ lock' = <<>>
    /\ status' = StatusIdle
    /\ StatusStep

\* ------------------------------------------------------- the environment
\* a step of the environment: the daemon does nothing
EnvStep ==
    /\ applied' = <<>>
    /\ last' = NoStep
    /\ UNCHANGED <<phase, config, swww_outputs, state, state_file, save_counter,
                   swww_check_counter, qvars, svars, tvars, pvars>>

\* every walk of a directory that holds the images 1..n, n up to maxImages
Listings(maxImages) == UNION {Perms(Iota(n)) : n \in 0..maxImages}

\* settings of one output as Config::load resolves them
OutputConfig(path, qsize, sorting, duration) ==
    [path |-> path, queue_size |-> qsize, sorting |-> sorting, duration |-> duration]

\* the wallpaper directory is found to hold l
SetListing(l) ==
    /\ listing' = l
    /\ UNCHANGED <<config_file, swww>>
    /\ EnvStep

\* the directory changes between two runs of the daemon
ReplaceDirectory ==
    /\ phase = "down"
    /\ \E l \in Listings(MaxDirImages) \ {listing} : SetListing(l)

\* the directory changes while the daemon may be running
ChangeDirectory == \E l \in Listings(MaxLiveImages) \ {listing} : SetListing(l)

\* the configurations the file can hold for two outputs: every behavior, the
\* first output with or without a wallpaper path, and Grouped with a group
\* list that is empty
Configs ==
    {[monitor_behavior |-> b[1],
      monitor_groups |-> b[2],
      outputs |-> [o \in Outputs |->
          OutputConfig(IF o = "o1" THEN path ELSE WallpaperDir, 1, "Ascending", 1)]] :
        b \in {<<"Independent", <<>>>>,
               <<"Synchronized", <<>>>>,
               <<"Grouped", << << <<"o2">> >> >> >>},
        path \in {WallpaperDir, NoPath}}
    \cup {[monitor_behavior |-> "Grouped",
           monitor_groups |-> << <<>> >>,
           outputs |-> [o \in Outputs |-> OutputConfig(WallpaperDir, 1, "Ascending", 1)]]}

\* what the configuration file can hold: a configuration, or nothing that parses
ConfigFiles == {<<c>> : c \in Configs} \cup {<<>>}

\* the configuration file is edited
EditConfig ==
    /\ \E f \in ConfigFiles \ {config_file} : config_file' = f
    /\ UNCHANGED <<listing, swww>>
    /\ EnvStep

\* the daemon stays down for IdleHours: every entry of the state file is that
\* much older (ages are kept up to the first hour past MaxAgeHours)
HoursPass ==
    /\ phase = "down"
    /\ state_file # <<>>
    /\ state_file' =
         <<[state_file[1] EXCEPT !.outputs =
              [o \in DOMAIN state_file[1].outputs |->
                  [state_file[1].outputs[o] EXCEPT !.last_updated =
                      Later(@, IdleHours, MaxAgeHours + 1)]]]>>
    /\ UNCHANGED <<phase, config, swww_outputs, state, save_counter,
                   swww_check_counter, applied, last, qvars, envvars, svars, tvars, pvars>>

\* the wallpaper service: not running, or running and reporting both outputs
\* or none
Services == {[up |-> FALSE, outputs |-> <<>>],
             [up |-> TRUE, outputs |-> <<>>],
             [up |-> TRUE, outputs |-> <<"o1", "o2">>]}

\* the wallpaper service stops, starts, or its outputs change
ServiceChange ==
    /\ \E sv \in Services \ {swww} : swww' = sv
    /\ UNCHANGED <<config_file, listing>>
    /\ EnvStep

\* a queue under next and previous
QueueInit == QFresh(0, MaxImages) /\ DaemonIdle
QueueNext == QNext \/ QPrevious
SpecQueue == QueueInit /\ [][QueueNext]_vars

\* a queue of capacity >= 1 under next alone, called again and again
AdvanceInit == QFresh(1, MaxAdvImages) /\ DaemonIdle
AdvanceNext == QNext
SpecAdvance == AdvanceInit /\ [][AdvanceNext]_vars /\ WF_vars(QNext)

\* a freshly created queue of capacity >= 1 sought to a position
SeekInit == QFresh(1, MaxImages) /\ DaemonIdle
SeekNext == QSetPosition
SpecSeek == SeekInit /\ [][SeekNext]_vars

\* the daemon is down, no state file yet; one output, rotating on its own
\* over a directory of up to maxImages images
RestartFrom(sortings, sizes, durations, maxImages) ==
    /\ QueueIdle
    /\ DaemonDown
    /\ \E sorting \in sortings, qsize \in sizes, duration \in durations :
         config_file = <<[monitor_behavior |-> "Independent",
                          monitor_groups |-> <<>>,
                          outputs |-> [o \in Outputs |->
                              OutputConfig(WallpaperDir, qsize, sorting, duration)]]>>
    /\ listing \in Listings(maxImages)
    /\ swww = [up |-> TRUE, outputs |-> <<"o1">>]
    /\ state_file = <<>>

\* the daemon started, killed and started again over a directory that may
\* change in between.  A shuffled queue branches at every restart of its
\* cycle: it runs with the shortest lookahead and duration only.
RestartInit ==
    \/ RestartFrom({"Ascending", "Descending"}, 1..MaxQueueSize, {1, MaxDuration},
                   MaxDirImages)
    \/ RestartFrom({"Random"}, {1}, {1}, MaxDirImages)
RestartNext == Startup \/ Tick \/ Kill \/ ReplaceDirectory
SpecRestart == RestartInit /\ [][RestartNext]_vars

\* the daemon started, killed, left down for hours and started again over a
\* directory that stays as it is
StaleInit == RestartFrom({"Ascending"}, {1}, {1}, MaxDirImages)
StaleNext == Startup \/ Tick \/ Kill \/ HoursPass
SpecStale == StaleInit /\ [][StaleNext]_vars

\* the same under Random sorting alone, over a larger directory that stays
\* as it is
ShuffledInit == RestartFrom({"Random"}, {1}, {1}, MaxShuffledImages)
ShuffledNext == Startup \/ Tick \/ Kill
SpecShuffled == ShuffledInit /\ [][ShuffledNext]_vars

\* the daemon between two ticks, under the commands of its clients, with the
\* configuration file, the directory and the wallpaper service changing
ReloadInit ==
    /\ QueueIdle
    /\ DaemonDown
    /\ config_file \in ConfigFiles
    /\ listing \in Listings(MaxLiveImages)
    /\ swww \in Services
    /\ state_file = <<>>
ReloadNext ==
    \/ Startup \/ Kill
    \/ IpcNext \/ IpcPrevious \/ IpcPause \/ IpcResume \/ IpcTogglePause \/ IpcReload
    \/ EditConfig \/ ChangeDirectory \/ ServiceChange
SpecReload == ReloadInit /\ [][ReloadNext]_vars

\* the group lists a configuration file may set: one group or two, of one
\* output or both, and two lists that name an output twice
GroupLists ==
    {<< <<"o1">> >>, << <<"o2">> >>, << <<"o1", "o2">> >>,
     << <<"o1">>, <<"o2">> >>, << <<"o2">>, <<"o2">> >>, << <<"o1", "o1">> >>}

\* configuration files with every behavior, with and without a group list
GroupFiles ==
    {<<[monitor_behavior |-> b,
        monitor_groups |-> g,
        outputs |-> [o \in Outputs |-> OutputConfig(WallpaperDir, 1, "Ascending", 1)]]>> :
        b \in {"Independent", "Synchronized", "Grouped"},
        g \in {<<>>} \cup {<<l>> : l \in GroupLists}}

\* the behavior or the groups set in the configuration file are changed
EditGroups ==
    /\ \E f \in GroupFiles \ {config_file} : config_file' = f
    /\ UNCHANGED <<listing, swww>>
    /\ EnvStep

\* an output is plugged in or out while the wallpaper service runs
PlugOutputs ==
    /\ swww.up
    /\ \E outs \in {<<"o1", "o2">>, <<"o1">>, <<"o2">>} \ {swww.outputs} :
          swww' = [swww EXCEPT !.outputs = outs]
    /\ UNCHANGED <<config_file, listing>>
    /\ EnvStep

\* the daemon started, killed and reloaded under a configuration file whose
\* behavior and groups change, with outputs coming and going: the steps that
\* build and tear down queues, groups and the shared queue
GroupsInit ==
    /\ QueueIdle
    /\ DaemonDown
    /\ config_file \in GroupFiles
    /\ listing \in {Iota(n) : n \in 1..MaxLiveImages}
    /\ swww = [up |-> TRUE, outputs |-> <<"o1", "o2">>]
    /\ state_file = <<>>
GroupsNext ==
    \/ Startup \/ Kill \/ IpcReload
    \/ EditGroups \/ PlugOutputs
SpecGroups == GroupsInit /\ [][GroupsNext]_vars

\* ------------------------------------------------------- the tick, step by step
\* a tick that goes on as if the mutex were free whoever holds it
try_lock_blind(mutex) == TRUE

\* shared_state.try_lock(): Ok exactly when nobody holds the mutex
try_lock(mutex) == mutex = <<>>

\* an iteration of the tick loop from interval.tick() to its first await
\* under the guard, with a liveness check that passes when it is due:
\* "continue" when
\* try_lock fails or the daemon is paused, else the guard taken, the queues
\* that are due advanced, and the applies they call for ahead
TickTake ==
    /\ phase = "running"
    /\ tick.pc = "idle"
    /\ LET st == AdvanceTime(state, 1, LongestDuration(config))
           sc == Bump(save_counter, SaveInterval)
           cc == Bump(swww_check_counter, CheckInterval)
       IN /\ cc >= CheckInterval => swww.up
          /\ save_counter' = sc
          /\ swww_check_counter' = IF cc >= CheckInterval THEN 0 ELSE cc
          /\ IF ~try_lock(lock) \/ st.paused
             THEN TickEnd([state |-> st, applied |-> <<>>, saved |-> FALSE])
             ELSE \E w \in RotationCheck([state |-> st, applied |-> <<>>],
                                         config, swww_outputs) :
                    /\ lock' = MutexLock("Tick")
                    /\ tick' = [pc |-> "applying",
                                pending |-> w.applied,
                                attempt |-> 0,
                                save_due |-> sc >= SaveInterval]
                    /\ state' = w.state
                    /\ applied' = <<>>
                    /\ last' = Step("Tick", "none", "none")
                    /\ UNCHANGED <<phase, config, swww_outputs, state_file, status,
                                   request, workers, qvars, envvars, pvars>>

\* change_wallpaper(..).await under the guard: one invocation of the
\* wallpaper tool for the apply at hand, which succeeds or fails; the loop
\* moves on after a success and after MAX_RETRIES invocations
TickInvoke ==
    /\ tick.pc = "applying"
    /\ tick.pending # <<>>
    /\ \E ok \in BOOLEAN :
          /\ tick' = IF ok \/ tick.attempt + 1 >= MAX_RETRIES
                     THEN [tick EXCEPT !.pending = Tail(@), !.attempt = 0]
                     ELSE [tick EXCEPT !.attempt = @ + 1]
          /\ applied' = IF ok THEN <<Head(tick.pending)>> ELSE <<>>
          /\ last' = Step("Apply", Head(tick.pending).output,
                          IF ok THEN "Success" ELSE "Error")
    /\ UNCHANGED <<phase, config, swww_outputs, state, state_file, save_counter,
                   swww_check_counter, lock, status, request, workers,
                   qvars, envvars, pvars>>

\* the end of the iteration: the periodic save when it is due, and the guard
\* dropped
TickRelease ==
    /\ tick.pc = "applying"
    /\ tick.pending = <<>>
    /\ state' = IF tick.save_due THEN save_state(state) ELSE state
    /\ state_file' = IF tick.save_due THEN <<save_state(state).persistent_state>>
                     ELSE state_file
    /\ save_counter' = IF tick.save_due THEN 0 ELSE save_counter
    /\ lock' = <<>>
    /\ tick' = TickIdle
    /\ applied' = <<>>
    /\ last' = Step("TickEnd", "none", "none")
    /\ UNCHANGED <<phase, config, swww_outputs, swww_check_counter, status, request,
                   workers,
                   qvars, envvars, pvars>>

\* a client sends Next and its worker thread blocks in state.lock()
IpcArrive ==
    /\ Serving
    /\ request = <<>>
    /\ \E target \in Outputs \cup {"none"} :
          request' = <<[cmd |-> "Next", output |-> target]>>
    /\ UNCHANGED <<tick, workers, qvars, envvars, dvars, svars, pvars>>

\* the worker that waits in state.lock() gets the mutex and goes through
\* handle_ipc_command(Next { output }) to its response
IpcServe ==
    /\ request # <<>>
    /\ lock = <<>>
    /\ Serving
    /\ LET target == request[1].output
       IN IF load(config_file) = <<>> THEN LoadFailed("Next", target)
          ELSE \E w \in HandleNext([state |-> state, applied |-> <<>>], target, swww) :
                 IpcEnd(w.state, w.applied, Step("Next", target, "Success"))

\* ------------------------------------------------------- single calls
\* a function is called on its own: nothing but what it returns is touched
CallStep == UNCHANGED <<arg, qvars, envvars, dvars, svars, tvars>>

\* the call of fn that has not returned yet
Calling(fn) == arg # <<>> /\ arg[1].fn = fn /\ result = <<>>

\* every group of up to MaxGroupLen outputs, and every list of up to
\* MaxGroups groups
GroupsOfOutputs == UNION {[1..k -> Outputs] : k \in 0..MaxGroupLen}
GroupListsUpTo == UNION {[1..k -> GroupsOfOutputs] : k \in 0..MaxGroups}

\* a Config as it is parsed, before validation: any behavior, with or
\* without a group list
ParsedConfigs ==
    {[monitor_behavior |-> b,
      monitor_groups |-> g,
      outputs |-> [o \in Outputs |-> OutputConfig(WallpaperDir, 1, "Ascending", 1)]] :
        b \in {"Independent", "Synchronized", "Grouped"},
        g \in {<<>>} \cup {<<l>> : l \in GroupListsUpTo}}

\* config.get_effective_monitor_behavior()
CallEffective ==
    /\ Calling("get_effective_monitor_behavior")
    /\ result' = <<get_effective_monitor_behavior(arg[1].config)>>
    /\ CallStep

\* the effective behavior computed for each parsed configuration
EffectiveInit ==
    /\ QueueIdle
    /\ ProcessDown
    /\ EnvIdle
    /\ arg \in {<<[fn |-> "get_effective_monitor_behavior", config |-> c]>> :
                    c \in ParsedConfigs}
    /\ result = <<>>
EffectiveNext == CallEffective
SpecEffective == EffectiveInit /\ [][EffectiveNext]_vars

\* what the wallpaper tool answers to each invocation in turn
ToolOutcomes == [1..MaxAttempts -> BOOLEAN]

\* the functions that run the wallpaper tool
ApplyFunctions ==
    {"change_wallpaper", "change_wallpaper_sync",
     "execute_wallpaper_change", "set_wallpaper_sync"}

\* change_wallpaper(output, image, ..).await
CallChangeWallpaper ==
    /\ Calling("change_wallpaper")
    /\ result' = <<change_wallpaper(arg[1].outcomes)>>
    /\ CallStep

\* change_wallpaper_sync(output, image, ..) and the thread it starts
CallChangeWallpaperSync ==
    /\ Calling("change_wallpaper_sync")
    /\ result' = <<change_wallpaper_sync(arg[1].outcomes)>>
    /\ CallStep

\* execute_wallpaper_change(output, image, ..) and the thread it starts
CallExecuteWallpaperChange ==
    /\ Calling("execute_wallpaper_change")
    /\ result' = <<execute_wallpaper_change(arg[1].outcomes)>>
    /\ CallStep

\* set_wallpaper_sync(output, image, ..) and the thread it starts
CallSetWallpaperSync ==
    /\ Calling("set_wallpaper_sync")
    /\ result' = <<set_wallpaper_sync(arg[1].outcomes)>>
    /\ CallStep

\* one wallpaper-apply by each of the functions that run the wallpaper tool,
\* against a tool that fails or succeeds at each invocation
ApplyInit ==
    /\ QueueIdle
    /\ ProcessDown
    /\ EnvIdle
    /\ arg \in {<<[fn |-> fn, output |-> o, outcomes |-> outcomes]>> :
                    fn \in ApplyFunctions, o \in Outputs, outcomes \in ToolOutcomes}
    /\ result = <<>>
ApplyNext ==
    \/ CallChangeWallpaper \/ CallChangeWallpaperSync
    \/ CallExecuteWallpaperChange \/ CallSetWallpaperSync
SpecApply == ApplyInit /\ [][ApplyNext]_vars

\* the configuration files that differ in the rotation duration alone: every
\* output rotates on its own over the wallpaper directory
DurationFiles ==
    {<<[monitor_behavior |-> "Independent",
        monitor_groups |-> <<>>,
        outputs |-> [o \in Outputs |-> OutputConfig(WallpaperDir, 1, "Ascending", d)]]>> :
        d \in 1..MaxReloadDuration}

\* the duration set in the configuration file is changed
EditDuration ==
    /\ \E f \in DurationFiles \ {config_file} : config_file' = f
    /\ UNCHANGED <<listing, swww>>
    /\ EnvStep

\* the daemon under its clock, with reloads of a configuration file whose
\* rotation duration is edited while the daemon runs
DurationInit ==
    /\ QueueIdle
    /\ DaemonDown
    /\ config_file \in DurationFiles
    /\ listing \in {Iota(n) : n \in 1..MaxLiveImages}
    /\ swww = [up |-> TRUE, outputs |-> <<"o1", "o2">>]
    /\ state_file = <<>>
DurationNext == Startup \/ Tick \/ IpcReload \/ EditDuration
SpecDuration == DurationInit /\ [][DurationNext]_vars

\* the daemon under its clock while clients ask for the next and the previous
\* image and for reloads of a configuration file whose rotation duration is
\* edited
PostponeNext ==
    Startup \/ Tick \/ IpcNext \/ IpcPrevious \/ IpcReload \/ EditDuration
SpecPostpone == DurationInit /\ [][PostponeNext]_vars

\* the configuration files that differ in the behavior alone: every output
\* has the wallpaper directory as its path
BehaviorFiles ==
    {<<c>> : c \in {x \in Configs : /\ validate_monitor_behavior(x)
                                     /\ x.outputs["o1"].path = WallpaperDir}}

\* the behavior set in the configuration file is changed
EditBehavior ==
    /\ \E f \in BehaviorFiles \ {config_file} : config_file' = f
    /\ UNCHANGED <<listing, swww>>
    /\ EnvStep

\* the daemon is down, the wallpaper service up with both outputs, the
\* configuration file set to one of the behaviors
LiveInit ==
    /\ QueueIdle
    /\ DaemonDown
    /\ config_file \in BehaviorFiles
    /\ listing \in Listings(MaxLiveImages)
    /\ swww = [up |-> TRUE, outputs |-> <<"o1", "o2">>]
    /\ state_file = <<>>

\* the daemon under its clock, with reloads of a configuration file whose
\* behavior is edited while the daemon runs
LiveNext == Startup \/ Tick \/ IpcReload \/ EditBehavior
SpecLive == LiveInit /\ [][LiveNext]_vars

\* the daemon under its clock, paused and resumed by its clients
PausedNext == Startup \/ Tick \/ IpcPause \/ IpcResume
SpecPaused == LiveInit /\ [][PausedNext]_vars

\* the daemon under its clock, paused and resumed by its clients, killed and
\* started again
PauseKeptNext == Startup \/ Tick \/ IpcPause \/ IpcResume \/ Kill
SpecPauseKept == LiveInit /\ [][PauseKeptNext]_vars

\* the daemon, started over a directory walked in order, under its clock
\* while clients ask for the next and the previous image and for the status
StatusInit ==
    /\ QueueIdle
    /\ DaemonDown
    /\ config_file \in BehaviorFiles
    /\ listing \in {Iota(n) : n \in 1..MaxStatusImages}
    /\ swww = [up |-> TRUE, outputs |-> <<"o1", "o2">>]
    /\ state_file = <<>>

\* an iteration of the tick loop in the first seconds after startup
EarlyTick ==
    /\ save_counter < MaxStatusTicks
    /\ Tick

StatusNext ==
    \/ Startup \/ EarlyTick \/ IpcNext \/ IpcPrevious
    \/ StatusBegin \/ StatusImage \/ StatusPush \/ StatusEnd
SpecStatus == StatusInit /\ [][StatusNext]_vars

\* the daemon started over a directory walked in order, its tick loop followed
\* step by step up to the first periodic save while clients ask for the next
\* image and for the status
LockInit ==
    /\ QueueIdle
    /\ DaemonDown
    /\ config_file \in BehaviorFiles
    /\ listing \in {Iota(n) : n \in 1..MaxLockImages}
    /\ swww = [up |-> TRUE, outputs |-> <<"o1", "o2">>]
    /\ state_file = <<>>

\* an iteration of the tick loop up to the one at which the first periodic
\* save is due
TickUntilSave ==
    /\ state_file = <<>>
    /\ save_counter < SaveInterval
    /\ TickTake

\* the clients show up in the last seconds before the periodic save is due
ClientsActive == save_counter >= SaveInterval - MaxLockTicks
LateArrive == ClientsActive /\ IpcArrive
LateStatus == ClientsActive /\ StatusBegin

LockNext ==
    \/ Startup \/ TickUntilSave \/ TickInvoke \/ TickRelease
    \/ LateArrive \/ IpcServe
    \/ LateStatus \/ StatusImage \/ StatusPush \/ StatusEnd
SpecLock == LockInit /\ [][LockNext]_vars

\* the same under the scheduling the code relies on: an await of the tick
\* loop and a step of a handler that holds the mutex complete, and a worker
\* blocked in state.lock() gets the mutex after one of the times it is dropped
SpecLockFair ==
    /\ SpecLock
    /\ WF_vars(TickInvoke) /\ WF_vars(TickRelease)
    /\ WF_vars(StatusImage) /\ WF_vars(StatusPush) /\ WF_vars(StatusEnd)
    /\ SF_vars(IpcServe)

\* ------------------------------------------------------- worker threads
\* a client connects and sends Next without a target: IpcServer::start gives
\* the connection a thread of its own, which calls handle_ipc_command
WorkerArrive(w) ==
    /\ Serving
    /\ workers[w].pc = "idle"
    /\ workers' = [workers EXCEPT ![w].pc = "waiting"]
    /\ UNCHANGED <<tick, request, qvars, envvars, dvars, svars, pvars>>

\* state.lock() returns in thread w: nobody holds the mutex, the thread
\* takes it, and what its handler works on is the state as it is now
WorkerLock(w) ==
    /\ workers[w].pc = "waiting"
    /\ lock = <<>>
    /\ lock' = MutexLock(w)
    /\ workers' = [workers EXCEPT ![w] = [pc |-> "locked", view |-> <<state>>]]
    /\ UNCHANGED <<status, tick, request, qvars, envvars, dvars, pvars>>

\* the state the handler of thread w works on, its timers read against the
\* clock as it stands now
Seen(w) ==
    LET view == workers[w].view[1]
    IN [view EXCEPT
          !.timers = [o \in DOMAIN @ |->
                        IF o \in DOMAIN state.timers THEN state.timers[o] ELSE @[o]],
          !.shared_timer = [i \in DOMAIN @ |->
                        IF i \in DOMAIN state.shared_timer THEN state.shared_timer[i]
                        ELSE @[i]],
          !.groups = [i \in DOMAIN @ |->
                        IF i \in DOMAIN state.groups
                        THEN [@[i] EXCEPT !.timer = state.groups[i].timer]
                        ELSE @[i]]]

\* handle_ipc_command(Next { output: None }) in thread w from Config::load to
\* its return, where the guard is dropped: the state the handler worked on,
\* advanced, is the daemon state
WorkerFinish(w) ==
    /\ workers[w].pc = "locked"
    /\ \E r \in (IF load(config_file) = <<>>
                 THEN {[state |-> Seen(w), applied |-> <<>>, ok |-> FALSE]}
                 ELSE {[state |-> x.state, applied |-> x.applied, ok |-> TRUE] :
                         x \in HandleNext([state |-> Seen(w), applied |-> <<>>],
                                    "none", swww)}) :
          /\ state' = r.state
          /\ applied' = r.applied
          /\ last' = Step("Next", "none", IF r.ok THEN "Success" ELSE "Error")
    /\ lock' = <<>>
    /\ workers' = [workers EXCEPT ![w] = [pc |-> "done", view |-> <<>>]]
    /\ UNCHANGED <<phase, config, swww_outputs, state_file, save_counter,
                   swww_check_counter, status, tick, request, qvars, envvars, pvars>>

\* an iteration of the tick loop, followed step by step, in the first
\* seconds after startup
EarlyTake ==
    /\ save_counter < MaxStatusTicks
    /\ TickTake

\* the daemon started over a directory walked in order, its tick loop
\* followed step by step while clients that connect at the same time each
\* ask for the next image
WorkersNext ==
    \/ Startup \/ EarlyTake \/ TickInvoke \/ TickRelease
    \/ \E w \in Workers : WorkerArrive(w)
    \/ \E w \in Workers : WorkerLock(w)
    \/ \E w \in Workers : WorkerFinish(w)
SpecWorkers == StatusInit /\ [][WorkersNext]_vars

\* the daemon between two ticks, under every command of its clients, with a
\* configuration file that is edited, at times into one that does not load
GateInit ==
    /\ QueueIdle
    /\ DaemonDown
    /\ config_file \in ConfigFiles
    /\ listing \in {Iota(n) : n \in 1..MaxLockImages}
    /\ swww = [up |-> TRUE, outputs |-> <<"o1", "o2">>]
    /\ state_file = <<>>
GateNext ==
    \/ Startup
    \/ IpcNext \/ IpcPrevious \/ IpcPause \/ IpcResume \/ IpcTogglePause \/ IpcReload
    \/ StatusBegin \/ StatusImage \/ StatusPush \/ StatusEnd
    \/ EditConfig
SpecGate == GateInit /\ [][GateNext]_vars

\* the behaviors with each output in a group of its own or both in one, and
\* each output's path the wallpaper directory or a directory without images
MixedFiles ==
    {<<[monitor_behavior |-> b[1],
        monitor_groups |-> b[2],
        outputs |-> [o \in Outputs |->
            OutputConfig(IF o = "o1" THEN p1 ELSE p2, 1, "Ascending", 1)]]>> :
        b \in {<<"Independent", <<>>>>,
               <<"Synchronized", <<>>>>,
               <<"Grouped", << << <<"o1">>, <<"o2">> >> >> >>,
               <<"Grouped", << << <<"o2">>, <<"o1">> >> >> >>,
               <<"Grouped", << << <<"o1", "o2">> >> >> >>},
        p1 \in {WallpaperDir, EmptyDir}, p2 \in {WallpaperDir, EmptyDir}}

\* the behavior, the groups or the paths set in the configuration file change
EditMixed ==
    /\ \E f \in MixedFiles \ {config_file} : config_file' = f
    /\ UNCHANGED <<listing, swww>>
    /\ EnvStep

\* the daemon between two ticks under Next, Previous and Reload, over a
\* configuration file whose paths may lead to a directory without images
MixedInit ==
    /\ QueueIdle
    /\ DaemonDown
    /\ config_file \in MixedFiles
    /\ listing \in {Iota(n) : n \in 1..MaxLockImages}
    /\ swww = [up |-> TRUE, outputs |-> <<"o1", "o2">>]
    /\ state_file = <<>>
MixedNext == Startup \/ IpcNext \/ IpcPrevious \/ IpcReload \/ EditMixed
SpecMixed == MixedInit /\ [][MixedNext]_vars

\* the daemon under its clock while the wallpaper service stops and starts
CheckInit == LockInit
CheckNext == Startup \/ Tick \/ TickRetry \/ ServiceChange
SpecCheck == CheckInit /\ [][CheckNext]_vars

\* the images of a sequence, each exactly once
EachOnce(s, images) ==
    /\ Len(s) = Len(images)
    /\ \A x \in Range(images) : Cardinality({i \in 1..Len(s) : s[i] = x}) = 1

\* C1: after any sequence of next and previous calls, history ++ current ++
\* buffer ++ pool holds each image of the original set exactly once
C1_Conservation == EachOnce(get_all_images(q), qorder)

\* a previous() after a restart has reordered the images of a larger set
C1_Witness ==
    /\ qop = "previous"
    /\ Len(qorder) > 2
    /\ q.current # NoImage
    /\ get_all_images(q) # qorder

\* C2: with capacity >= 1 every next() returns an image of the set, a
\* single-image set always returns its one image, and under next() called
\* again and again every image of the set is current infinitely often
C2_AdvanceLive ==
    /\ [](qop = "next" => (qret # NoImage /\ qret \in Range(qorder)))
    /\ []((qop = "next" /\ Len(qorder) = 1) => qret = qorder[1])
    /\ \A i \in 1..MaxAdvImages :
         []<>(i \in Range(qorder) => (qop = "next" /\ qret = i))

\* a next() that restarted a shuffled queue of at least three images
C2_Witness ==
    /\ qop = "next"
    /\ q.sorting = "Random"
    /\ Len(qorder) >= 3
    /\ q.tail = <<>>
    /\ qret # NoImage

\* C3: under Ascending or Descending sorting the k-th next() of a fresh queue
\* returns the image at index k mod N of the sorted order, in every cycle
C3_OrderedCycle ==
    (qop = "next" /\ q.sorting \in {"Ascending", "Descending"})
        => qret = qorder[adv + 1]

\* C8: set_position(n) on a fresh queue over N images returns true and leaves
\* current_position() = n when n < N, and returns false when n >= N
C8_SeekResult ==
    qop = "set_position" =>
        IF qarg < Len(qorder)
        THEN qok /\ current_position(q) = qarg
        ELSE ~qok

\* C9: after a successful set_position(n) on a fresh queue current is the
\* image at index n of the sorted order, the history is the n images before
\* it, and no image is lost or duplicated
C9_SeekState ==
    (qop = "set_position" /\ qok) =>
        /\ q.current = qorder[qarg + 1]
        /\ q.tail = SubSeq(qorder, 1, qarg)
        /\ EachOnce(get_all_images(q), qorder)

\* ------------------------------------------------- restart reconciliation
\* the daemon has just come up
Started == last.cmd = "Startup" /\ last.response = "Success"

\* the snapshot the state file held when the daemon came up
Snapshot == PersistentLoad(state_file)

\* the snapshot has an entry for output o
HasEntry(o) == o \in DOMAIN Snapshot.outputs

\* the number of wallpaper-applies the last step issued for output o
AppliesTo(o) == Cardinality({i \in 1..Len(applied) : applied[i].output = o})

\* startup took output o's queue from the snapshot: a queue, and no initial apply
Accepted(o) == o \in DOMAIN state.queues /\ AppliesTo(o) = 0

\* the sorting the configuration sets for output o
Configured(o) == get_output_config(config, o).sorting

\* C4: a snapshot entry written under Ascending or Descending sorting, the
\* daemon restarted with the same configuration over the same image set:
\* after startup the output's queue has the recorded current image and position
C4_Resume ==
    (/\ Started
     /\ HasEntry("o1")
     /\ Snapshot.outputs["o1"].sorting \in {"Ascending", "Descending"}
     /\ Snapshot.outputs["o1"].sorting = Configured("o1")
     /\ Range(listing) = Range(Snapshot.outputs["o1"].images))
        => /\ "o1" \in DOMAIN state.queues
           /\ current_image(state.queues["o1"]) = Snapshot.outputs["o1"].current_image
           /\ current_position(state.queues["o1"]) = Snapshot.outputs["o1"].queue_position

\* C5: an ordered snapshot entry with list L and position p < |L|, the
\* discovered images sorted by the entry's mode being exactly L: startup
\* installs a queue whose current image is L[p] at position p
C5_OrderedRestore ==
    (/\ Started
     /\ HasEntry("o1")
     /\ Snapshot.outputs["o1"].sorting \in {"Ascending", "Descending"}
     /\ Snapshot.outputs["o1"].queue_position < Len(Snapshot.outputs["o1"].images)
     /\ ApplySorting(Snapshot.outputs["o1"].sorting, listing, <<>>)
            = Snapshot.outputs["o1"].images)
        => /\ "o1" \in DOMAIN state.queues
           /\ current_image(state.queues["o1"])
                = Snapshot.outputs["o1"].images[Snapshot.outputs["o1"].queue_position + 1]
           /\ current_position(state.queues["o1"]) = Snapshot.outputs["o1"].queue_position

\* the discovered list differs from an ordered entry's list, or a Random
\* entry's current image is no longer discovered
Mismatch(o) ==
    /\ HasEntry(o)
    /\ IF Snapshot.outputs[o].sorting = "Random"
       THEN ~Contains(listing, Snapshot.outputs[o].current_image)
       ELSE listing # Snapshot.outputs[o].images

\* C6: on a mismatch the entry is not used: the output has a fresh queue at
\* position 0 on the first image under the configured sorting, a timer set to
\* now, and exactly one initial apply, of that image, was issued for it
C6_MismatchFresh ==
    (Started /\ Mismatch("o1"))
        => /\ "o1" \in DOMAIN state.queues
           /\ current_position(state.queues["o1"]) = 0
           /\ current_image(state.queues["o1"]) \in Range(listing)
           /\ Configured("o1") # "Random" =>
                current_image(state.queues["o1"])
                    = ApplySorting(Configured("o1"), listing, <<>>)[1]
           /\ state.queues["o1"].buffer \o state.queues["o1"].images
                \in {Tail(p) : p \in {ApplySorting(Configured("o1"), listing, sh) :
                                        sh \in Shuffles(Configured("o1"), listing)}}
           /\ state.timers["o1"] = Now
           /\ AppliesTo("o1") = 1
           /\ applied = <<Apply("o1", current_image(state.queues["o1"]))>>

\* a restart over a changed directory of two images or more, the entry
\* written after the queue had moved on from its first image
C6_Witness ==
    /\ Started
    /\ Mismatch("o1")
    /\ Snapshot.outputs["o1"].queue_position > 0
    /\ Len(listing) >= 2
    /\ Range(listing) # Range(Snapshot.outputs["o1"].images)

\* C7: a Random entry is accepted only if its current image is discovered,
\* and then the restored queue's current image is the recorded one
C7_RandomRestore ==
    (/\ Started
     /\ HasEntry("o1")
     /\ Snapshot.outputs["o1"].sorting = "Random"
     /\ Accepted("o1"))
        => /\ Contains(listing, Snapshot.outputs["o1"].current_image)
           /\ current_image(state.queues["o1"]) = Snapshot.outputs["o1"].current_image

\* ------------------------------------------------------------------ reload
\* C10: a Reload answered with Error leaves the live daemon state - queues
\* and timers, shared queue and timer, groups, pause flag - as it was
C10_ReloadErrorKeepsState ==
    [][(last'.cmd = "Reload" /\ last'.response = "Error") => state' = state]_vars

\* C11: once the daemon has started, whatever ticks and commands follow,
\* there is an independent queue, a shared queue or a group to rotate
C11_SomethingToRotate == Serving => HasWallpaperManagement(state)

\* the configuration file holds Grouped with a group list that is empty
GroupedEmpty ==
    /\ config_file # <<>>
    /\ get_effective_monitor_behavior(config_file[1]).variant = "Grouped"
    /\ get_effective_monitor_behavior(config_file[1]).groups = <<>>

\* C12: a Reload that reads a Grouped configuration with an empty group list
\* is answered with Error and leaves the daemon state as it was
C12_EmptyGroupsRejected ==
    [][(last'.cmd = "Reload" /\ GroupedEmpty)
          => (last'.response = "Error" /\ state' = state)]_vars

\* such a Reload has been refused by a daemon that has something to rotate
C12_Witness ==
    /\ last.cmd = "Reload"
    /\ last.response = "Error"
    /\ GroupedEmpty
    /\ swww.up /\ swww.outputs # <<>>
    /\ HasWallpaperManagement(state)

\* the configuration file loads and its effective behavior has the variant
\* the live state st shows
SameBehavior(st) ==
    /\ load(config_file) # <<>>
    /\ get_effective_monitor_behavior(load(config_file)[1]).variant
          = current_behavior(st)

C18_SharedNext ==
    [][(last'.cmd = "Next" /\ last'.output = "none" /\ state.shared_queue # <<>>)
          => /\ state'.shared_queue # <<>>
             /\ state'.shared_queue[1] \in NextQueues(state.shared_queue[1])
             /\ current_image(state'.shared_queue[1]) # NoImage
             /\ \A o \in Range(QueryOutputs(swww)) :
                    /\ Cardinality({i \in 1..Len(applied') : applied'[i].output = o}) = 1
                    /\ Contains(applied', Apply(o, current_image(state'.shared_queue[1])))
             /\ state'.shared_timer = <<Now>>]_vars

\* the state st2 differs from st at most in the independent queue and timer
\* of output o
OnlyOutputTouched(st, st2, o) ==
    /\ st2.shared_queue = st.shared_queue
    /\ st2.shared_timer = st.shared_timer
    /\ st2.groups = st.groups
    /\ st2.paused = st.paused
    /\ st2.persistent_state = st.persistent_state
    /\ DOMAIN st2.queues = DOMAIN st.queues
    /\ \A p \in DOMAIN st.queues \ {o} : st2.queues[p] = st.queues[p]
    /\ DOMAIN st2.timers \subseteq DOMAIN st.timers \cup {o}
    /\ \A p \in DOMAIN st.timers \ {o} :
          p \in DOMAIN st2.timers /\ st2.timers[p] = st.timers[p]
    /\ o \notin DOMAIN st.queues => st2 = st

\* C19: a Next or Previous that names output o changes at most the
\* independent queue and timer of o, and nothing when o has no such queue
C19_TargetOnly ==
    [][\A o \in Outputs :
          (last'.cmd \in {"Next", "Previous"} /\ last'.output = o)
             => /\ OnlyOutputTouched(state, state', o)
                /\ \A i \in 1..Len(applied') : applied'[i].output = o]_vars

\* a Next naming an output that rotates on its own beside a live group
C19_Witness ==
    /\ last.cmd = "Next"
    /\ last.output = "o1"
    /\ last.response = "Success"
    /\ state.groups # <<>>
    /\ "o1" \in DOMAIN state.queues
    /\ applied = <<Apply("o1", current_image(state.queues["o1"]))>>

\* the state st2 differs from st at most in the pause flag
OnlyPauseTouched(st, st2) == st2 = [st EXCEPT !.paused = st2.paused]

\* C20: Pause sets the pause flag, Resume clears it, TogglePause negates it;
\* each is answered with Success and leaves queues, timers, groups and the
\* shared queue alone
C20_PauseFlag ==
    [][/\ last'.cmd \in {"Pause", "Resume", "TogglePause"}
          => (last'.response = "Success" /\ OnlyPauseTouched(state, state'))
       /\ last'.cmd = "Pause" => state'.paused
       /\ last'.cmd = "Resume" => ~state'.paused
       /\ last'.cmd = "TogglePause" => state'.paused = ~state.paused]_vars

\* ------------------------------------------------------------ scheduler
\* the step is an iteration of the tick loop that took the state lock
TickRan ==
    /\ last'.cmd = "Tick"
    /\ phase' = "running"
    /\ phase = "running" \/ swww.up
    /\ lock = <<>>

\* the seconds the iteration lets pass before it looks at the timers
TickSecs == IF phase = "retrying" THEN RetryWait ELSE 1

\* a timer has run the duration configured for output o by the time the
\* iteration looks at it
Due(timer, o) ==
    Expired(Later(timer, TickSecs, LongestDuration(config)),
            get_output_config(config, o).duration)

\* the applies the step issued hold one of image for each output of outs
AppliedToAll(outs, image) ==
    \A o \in Range(outs) : Contains(applied', Apply(o, image))

\* C14: a tick that takes the lock while not paused advances every
\* independent output, shared queue and group whose timer has run its
\* duration, applies the new image to the outputs it covers and sets its
\* timer to now
C14_ExpiredRotate ==
    [][(TickRan /\ ~state.paused)
          => /\ \A o \in DOMAIN state.queues :
                   Due(state.timers[o], o)
                      => /\ o \in DOMAIN state'.queues
                         /\ state'.queues[o] \in NextQueues(state.queues[o])
                         /\ AppliedToAll(<<o>>, current_image(state'.queues[o]))
                         /\ state'.timers[o] = Now
             /\ (state.shared_queue # <<>> /\ Due(state.shared_timer[1], swww_outputs[1]))
                   => /\ state'.shared_queue # <<>>
                      /\ state'.shared_queue[1] \in NextQueues(state.shared_queue[1])
                      /\ AppliedToAll(swww_outputs, current_image(state'.shared_queue[1]))
                      /\ state'.shared_timer = <<Now>>
             /\ \A i \in DOMAIN state.groups :
                   Due(state.groups[i].timer, state.groups[i].outputs[1])
                      => /\ i \in DOMAIN state'.groups
                         /\ state'.groups[i].queue \in NextQueues(state.groups[i].queue)
                         /\ AppliedToAll(state.groups[i].outputs,
                                         current_image(state'.groups[i].queue))
                         /\ state'.groups[i].timer = Now]_vars

\* the queues of a daemon state: independent, shared and of each group
QueuesOf(st) ==
    <<st.queues, st.shared_queue,
      [i \in DOMAIN st.groups |-> <<st.groups[i].outputs, st.groups[i].queue>>]>>

\* no timer of st2 has been set to now since st
NoTimerReset(st, st2) ==
    /\ DOMAIN st2.timers = DOMAIN st.timers
    /\ \A o \in DOMAIN st.timers : st2.timers[o] >= st.timers[o] /\ st2.timers[o] # Now
    /\ DOMAIN st2.shared_timer = DOMAIN st.shared_timer
    /\ \A i \in DOMAIN st.shared_timer :
          st2.shared_timer[i] >= st.shared_timer[i] /\ st2.shared_timer[i] # Now
    /\ \A i \in DOMAIN st.groups :
          st2.groups[i].timer >= st.groups[i].timer /\ st2.groups[i].timer # Now

\* C15: while the pause flag is set no tick advances a queue, resets a timer
\* or issues a wallpaper-apply
C15_PausedTickRotatesNothing ==
    [][(last'.cmd = "Tick" /\ state.paused)
          => /\ QueuesOf(state') = QueuesOf(state)
             /\ NoTimerReset(state, state')
             /\ applied' = <<>>
             /\ state'.paused]_vars

\* a tick has passed over a paused daemon whose timers have all run out
C15_Witness ==
    /\ last.cmd = "Tick"
    /\ phase = "running"
    /\ state.paused
    /\ HasWallpaperManagement(state)
    /\ \A o \in DOMAIN state.timers :
          Expired(state.timers[o], get_output_config(config, o).duration)
    /\ \A i \in DOMAIN state.shared_timer :
          Expired(state.shared_timer[i], get_output_config(config, swww_outputs[1]).duration)
    /\ \A i \in DOMAIN state.groups :
          Expired(state.groups[i].timer,
                  get_output_config(config, state.groups[i].outputs[1]).duration)

\* the iteration finds the save counter at the save interval
SaveDue ==
    IF phase = "retrying" THEN save_counter >= SaveInterval
    ELSE Bump(save_counter, SaveInterval) >= SaveInterval

\* C16: a tick that takes the lock while the pause flag is set still writes
\* the snapshot when the save counter is due
C16_PausedTickSaves ==
    [][(TickRan /\ state.paused /\ SaveDue)
          => /\ state_file' = <<save_state(state).persistent_state>>
             /\ save_counter' = 0]_vars


\* position, image and size of the queue a row reads, as the state st has them
TripleOfRow(st, row) ==
    <<current_position(QueueOfRow(st, row)[1]),
      ImageOfRow(st, row),
      size(QueueOfRow(st, row)[1])>>

\* the step is the one on which a Status request is answered with its rows
StatusAnswered ==
    /\ status.pc = "image"
    /\ status'.pc = "idle"
    /\ last'.cmd = "Status"
    /\ last'.response = "Status"

\* C17: while Next and Previous requests and the ticks of the scheduler run
\* beside a Status request, every row of the Status response reports a queue
\* position, a current image and a queue size that its queue had together in
\* one state between the request being taken up and its response: the state
\* the handler found, or the state it left
C17_StatusSnapshot ==
    [][StatusAnswered =>
        \A k \in 1..Len(last'.outputs) :
            \E st \in {status.began[1], state} :
                /\ QueueOfRow(st, status.entities[k]) # <<>>
                /\ <<last'.outputs[k].queue_position,
                     last'.outputs[k].current_image,
                     last'.outputs[k].queue_size>>
                   = TripleOfRow(st, status.entities[k])]_vars

\* a Status response with a row for each output, one of them of a queue that
\* has moved on from its first position
C17_Witness ==
    /\ last.cmd = "Status"
    /\ last.response = "Status"
    /\ Len(last.outputs) = 2
    /\ \E k \in 1..Len(last.outputs) :
          /\ last.outputs[k].queue_position > 0
          /\ last.outputs[k].current_image # <<>>
          /\ last.outputs[k].queue_size > 0

\* the next() that takes the queue from qu does not restart it: its refill
\* leaves the history where it is
AdvanceKeepsHistory(qu) == ~RestartDue(FillBuffer(PushAndPop(qu)))

\* C26: in any reachable queue state, a next() that does not restart the
\* queue, followed at once by previous(), leaves current what it was before
\* the two calls and leaves the history unchanged
C26_AdvanceRetreat ==
    [][(qop' = "next" /\ AdvanceKeepsHistory(q)) =>
        /\ current_image(previous(q')) = current_image(q)
        /\ previous(q').tail = q.tail]_vars

\* C30: in every queue state reached by new, next() and previous(), seen
\* between the calls, the lookahead buffer holds at most size images (the
\* sizes a configuration can set, 1 and more)
C30_BufferBound == q.size >= 1 => Len(q.buffer) <= q.size

\* the step is a tick that wrote the snapshot to the state file
TickSaved ==
    /\ TickRan
    /\ ~state.paused
    /\ SaveDue

\* the snapshot has an entry that records the current image and the position
\* of the queue qu
Recorded(ps, qu) ==
    \E o \in DOMAIN ps.outputs :
        /\ ps.outputs[o].current_image = current_image(qu)
        /\ ps.outputs[o].queue_position = current_position(qu)

\* C24: after each periodic save the written snapshot has an entry for every
\* active queue of the live state (the queue of every independent output, the
\* shared queue, the queue of every group) that records that queue's current
\* image and current_position() as they are at the save
C24_SnapshotCoversQueues ==
    [][TickSaved =>
        /\ state_file' # <<>>
        /\ \A o \in DOMAIN state'.queues :
              /\ o \in DOMAIN state_file'[1].outputs
              /\ state_file'[1].outputs[o].current_image
                    = current_image(state'.queues[o])
              /\ state_file'[1].outputs[o].queue_position
                    = current_position(state'.queues[o])
        /\ state'.shared_queue # <<>>
              => Recorded(state_file'[1], state'.shared_queue[1])
        /\ \A i \in DOMAIN state'.groups :
              Recorded(state_file'[1], state'.groups[i].queue)]_vars

\* C25: once the snapshot is loaded at startup it holds no entry older than
\* the age threshold
C25_StalePurged ==
    phase = "running" =>
        state.persistent_state = cleanup_stale_state(state.persistent_state, MaxAgeHours)

\* the outputs the groups of a daemon state cover, group by group
GroupMembers(st, i) == Range(st.groups[i].outputs)

\* a daemon reloaded into two groups of one output each while a third entity
\* could have been left over from the behavior before
C28_Witness ==
    /\ last.cmd = "Reload"
    /\ last.response = "Success"
    /\ Len(state.groups) = 2
    /\ state.queues = <<>>
    /\ state.shared_queue = <<>>

\* C28: in every reachable daemon state each output has at most one entity in
\* charge of it: with the shared queue present there are no independent
\* queues and no groups, no output is both a key of the independent queues
\* and a member of a group, and no output is a member of two groups
C28_OneInCharge ==
    /\ state.shared_queue # <<>> => (state.queues = <<>> /\ state.groups = <<>>)
    /\ \A o \in DOMAIN state.queues :
          \A i \in DOMAIN state.groups : o \notin GroupMembers(state, i)
    /\ \A i, j \in DOMAIN state.groups :
          i # j => GroupMembers(state, i) \cap GroupMembers(state, j) = {}
    /\ \A i \in DOMAIN state.groups :
          \A k, l \in DOMAIN state.groups[i].outputs :
              state.groups[i].outputs[k] = state.groups[i].outputs[l] => k = l

\* the configuration the Reload just answered has read
Reloaded == load(config_file)[1]

\* the step is the first tick after a Reload answered Success that read a new
\* duration for output o under an unchanged behavior
TickAfterReload(o) ==
    /\ TickRan
    /\ ~state.paused
    /\ last.cmd = "Reload"
    /\ last.response = "Success"
    /\ get_effective_monitor_behavior(Reloaded).variant = current_behavior(state)
    /\ get_output_config(Reloaded, o).duration # get_output_config(config, o).duration

\* C29: after a Reload answered Success that changed the rotation duration of
\* an active output (behavior unchanged), the next rotation check of the tick
\* loop measures the output's timer against the new duration: the output
\* rotates exactly when the time left that Status reports, under the new
\* duration, has run out
C29_NewDurationUsed ==
    [][\A o \in DOMAIN state.queues :
          TickAfterReload(o) =>
              ((Remaining(Later(state.timers[o], TickSecs, LongestDuration(config)),
                          get_output_config(Reloaded, o).duration) = 0)
                 <=> (/\ state'.queues[o] \in NextQueues(state.queues[o])
                      /\ state'.timers[o] = Now
                      /\ AppliedToAll(<<o>>, current_image(state'.queues[o]))))]_vars

\* the call of fn has returned
Called(fn) == arg # <<>> /\ arg[1].fn = fn /\ result # <<>>

\* the index of the first invocation that succeeds, one past the last
\* invocation followed when none does
FirstSuccess(outcomes) ==
    IF \E k \in DOMAIN outcomes : outcomes[k]
    THEN CHOOSE k \in DOMAIN outcomes :
            outcomes[k] /\ \A j \in DOMAIN outcomes : outcomes[j] => k <= j
    ELSE Len(outcomes) + 1

\* C23: every wallpaper-apply, issued by the tick loop (change_wallpaper) or
\* by a worker of an IPC request (change_wallpaper_sync,
\* execute_wallpaper_change), is tried again after a failure until it succeeds
\* or 3 invocations are made: it makes min(k, 3) invocations, k the index of
\* the first invocation that succeeds, and never a 4th
C23_ThreeAttempts ==
    (\/ Called("change_wallpaper")
     \/ Called("change_wallpaper_sync")
     \/ Called("execute_wallpaper_change"))
        => result[1].invocations
              = (IF FirstSuccess(arg[1].outcomes) < 3
                 THEN FirstSuccess(arg[1].outcomes) ELSE 3)

\* the behavior the claim gives for a configuration
EffectiveAsClaimed(c) ==
    IF c.monitor_behavior = "Grouped" /\ c.monitor_groups = <<>>
    THEN [variant |-> "Independent", groups |-> <<>>]
    ELSE IF c.monitor_behavior = "Grouped"
         THEN [variant |-> "Grouped", groups |-> c.monitor_groups[1]]
         ELSE [variant |-> c.monitor_behavior, groups |-> <<>>]

\* C27: the effective behavior is always one of the three behaviors, never an
\* error: Independent when the configuration says Grouped without a group
\* list, Grouped with the configured groups when it says Grouped with a group
\* list, and the configured variant otherwise, group list or not
C27_EffectiveBehavior ==
    Called("get_effective_monitor_behavior") =>
        /\ result[1].variant \in {"Independent", "Synchronized", "Grouped"}
        /\ result[1] = EffectiveAsClaimed(arg[1].config)

\* the effective behavior of a configuration that says Grouped and has no
\* group list has been computed
C27_Witness ==
    /\ Called("get_effective_monitor_behavior")
    /\ arg[1].config.monitor_behavior = "Grouped"
    /\ arg[1].config.monitor_groups = <<>>
    /\ result[1].variant = "Independent"

\* ------------------------------------------------------------ the mutex
\* the tick loop is inside change_wallpaper(..).await: an invocation of the
\* wallpaper tool is in progress, or the wait before the next one
TickApplying == tick.pc = "applying" /\ tick.pending # <<>>

\* C21: no invocation of the wallpaper tool is in progress for an actor that
\* holds the state lock; here, for the tick loop: while it applies an image
\* it does not hold the lock
C21_NoApplyUnderLock == TickApplying => lock # MutexLock("Tick")

\* the step is an iteration of the tick loop up to its try_lock and beyond
TickAttempt == phase = "running" /\ swww_check_counter' # swww_check_counter

\* the iteration did nothing but let a second pass: no queue moved, nothing
\* applied, nothing saved, the save still due if it was
TickSkipped ==
    /\ state' = AdvanceTime(state, 1, LongestDuration(config))
    /\ applied' = <<>>
    /\ state_file' = state_file
    /\ save_counter' = Bump(save_counter, SaveInterval)
    /\ lock' = lock
    /\ tick' = TickIdle

\* the requests a worker can wait with
WaitingRequests == {[cmd |-> "Next", output |-> o] : o \in Outputs \cup {"none"}}

C31_ZeroCapacityAdvances ==
    [][(q.size = 0 /\ qop' = "next" /\ current_image(q) # NoImage) =>
          /\ qret' # NoImage
          /\ current_image(q') # NoImage]_vars

\* C32: a previous() on a queue whose history is empty reports no image and
\* leaves the queue as it was, its current image included
C32_RetreatAtStart ==
    [][(qop' = "previous" /\ q.tail = <<>>) =>
          /\ q' = q
          /\ current_image(q') = current_image(q)]_vars

\* ------------------------------------------------------------ liveness check
\* the step is the end of an iteration whose liveness check failed and
\* failed again after the wait
CheckFailedTwice == phase = "retrying" /\ phase' # "retrying" /\ ~swww.up

\* C33: an iteration of the tick loop whose liveness check fails, and fails
\* again on its one retry, does not end the daemon and still makes the
\* rotation check (every entity whose timer has run its duration gets a fresh
\* timer) and, when it is due, the save
C33_FailedCheckGoesOn ==
    [][(CheckFailedTwice /\ ~state.paused) =>
          /\ phase' = "running"
          /\ \A o \in DOMAIN state.timers :
                Due(state.timers[o], o) => state'.timers[o] = Now
          /\ (state.shared_timer # <<>> /\ Due(state.shared_timer[1], swww_outputs[1]))
                => state'.shared_timer = <<Now>>
          /\ \A i \in DOMAIN state.groups :
                Due(state.groups[i].timer, state.groups[i].outputs[1])
                    => state'.groups[i].timer = Now
          /\ save_counter >= SaveInterval
                => /\ state_file' = <<state'.persistent_state>>
                   /\ save_counter' = 0]_vars

\* ------------------------------------------------------------ capacity
\* C34: the queue_size of a snapshot entry is the capacity of the queue it
\* was taken from, the lookahead size the configuration sets, so that a queue
\* restored from the snapshot has the capacity of the queue that was saved
C34_CapacityRecorded ==
    /\ state_file # <<>> =>
          \A o \in DOMAIN state_file[1].outputs :
              state_file[1].outputs[o].queue_size
                  = get_output_config(config_file[1], o).queue_size
    /\ phase = "running" =>
          \A o \in DOMAIN state.queues :
              state.queues[o].size = get_output_config(config, o).queue_size

\* ------------------------------------------------------------ rebuild
\* the variant of the effective behavior of the configuration file
NewVariant == get_effective_monitor_behavior(load(config_file)[1]).variant

\* the step is a Reload answered with Success that read a configuration
\* whose effective variant is not the one the live state shows
BehaviorChanged ==
    /\ last'.cmd = "Reload"
    /\ last'.response = "Success"
    /\ load(config_file) # <<>>
    /\ NewVariant # current_behavior(state)

\* nothing in st belongs to a behavior other than variant
NothingOfOthers(st, variant) ==
    /\ variant = "Independent" =>
          st.groups = <<>> /\ st.shared_queue = <<>> /\ st.shared_timer = <<>>
    /\ variant = "Synchronized" =>
          st.queues = <<>> /\ st.timers = <<>> /\ st.groups = <<>>
    /\ variant = "Grouped" =>
          st.shared_queue = <<>> /\ st.shared_timer = <<>>

\* C35: after a Reload answered with Success whose new effective variant is
\* not the behavior the live state showed, the pause flag is as before,
\* nothing of the previous behavior remains, and the behavior the new live
\* state shows is the new effective variant
C35_RebuildMatches ==
    [][BehaviorChanged =>
          /\ state'.paused = state.paused
          /\ NothingOfOthers(state', NewVariant)
          /\ current_behavior(state') = NewVariant]_vars

\* ------------------------------------------------------------ one failure
\* the directory of output o in the configuration file holds an image
HasImages(o) ==
    /\ get_output_config(load(config_file)[1], o).path # NoPath
    /\ Walk(get_output_config(load(config_file)[1], o).path, listing) # <<>>

\* the configured groups, as the configuration file has them
NewGroups == get_effective_monitor_behavior(load(config_file)[1]).groups

\* the step is a Reload that rebuilds the queues: it read a configuration of
\* another behavior than the live state shows, the wallpaper service up
Rebuilds ==
    /\ last'.cmd = "Reload"
    /\ load(config_file) # <<>>
    /\ NewVariant # current_behavior(state)
    /\ swww.up /\ swww.outputs # <<>>

\* C36: a failure with one output or entity does not keep the others covered
\* by the same request from being processed.  For the rebuild of Reload: an
\* output that is to rotate on its own, and a group, whose own directory holds
\* images gets its queue whatever happened to the others; for Next without a
\* target: every independent queue advances
C36_OthersProcessed ==
    [][/\ (Rebuilds /\ NewVariant = "Independent") =>
             \A o \in Range(swww.outputs) :
                 HasImages(o) => o \in DOMAIN state'.queues
       /\ (Rebuilds /\ NewVariant = "Grouped") =>
             \A i \in DOMAIN NewGroups :
                 (\E o \in Range(NewGroups[i]) :
                      Contains(swww.outputs, o) /\ HasImages(o))
                    => \E j \in DOMAIN state'.groups :
                          state'.groups[j].outputs = Filter(NewGroups[i], swww.outputs)
       /\ (last'.cmd = "Next" /\ last'.output = "none" /\ last'.response = "Success"
              /\ current_behavior(state) = "Independent") =>
             \A o \in DOMAIN state.queues :
                 /\ o \in DOMAIN state'.queues
                 /\ state'.queues[o] \in NextQueues(state.queues[o])]_vars

\* ------------------------------------------------------------ postponement
\* the rotation duration the daemon has read for output o: in the
\* configuration a Reload has just read with Success, else in main's
ConfiguredDuration(o) ==
    IF last.cmd = "Reload" /\ last.response = "Success"
    THEN get_output_config(Reloaded, o).duration
    ELSE get_output_config(config, o).duration

\* the step gave output o another image to show
Rotated(o) ==
    /\ o \in DOMAIN state.queues
    /\ o \in DOMAIN state'.queues
    /\ current_image(state'.queues[o]) # NoImage
    /\ current_image(state'.queues[o]) # current_image(state.queues[o])

\* C37: the tick loop advances an output only when the time since the
\* output's last rotation is at least the duration configured for it; a
\* rotation, by the tick loop or by a Next or Previous that changed the
\* output's image, sets the output's timer to now
C37_NotBeforeDuration ==
    [][/\ TickRan =>
             \A o \in DOMAIN state.queues :
                 (o \in DOMAIN state'.queues /\ state'.queues[o] # state.queues[o])
                    => Expired(Later(state.timers[o], TickSecs, LongestDuration(config)),
                               ConfiguredDuration(o))
       /\ (TickRan \/ last'.cmd \in {"Next", "Previous"}) =>
             \A o \in Outputs : Rotated(o) => state'.timers[o] = Now]_vars

\* ------------------------------------------------------------ pause kept
\* the state file holds a snapshot with the pause flag set
PauseSaved == state_file # <<>> /\ state_file[1].global_paused

\* C38: the pause flag survives a restart: the periodic save that comes due
\* while the daemon is paused writes a snapshot whose global_paused is set,
\* and a daemon started from such a snapshot starts with its pause flag set
C38_PauseSurvives ==
    [][/\ (TickRan /\ state.paused /\ SaveDue) => PauseSaved'
       /\ (phase = "down" /\ phase' = "running" /\ PauseSaved) => state'.paused]_vars

\* ------------------------------------------------------------ serialized
\* the step is the return of the handler of worker thread w
Returned(w) == workers[w].pc = "locked" /\ workers'[w].pc = "done"

\* every queue of st is, in st2, the queue one next() makes of it
AdvancedOnce(st, st2) ==
    /\ DOMAIN st2.queues = DOMAIN st.queues
    /\ \A o \in DOMAIN st.queues : st2.queues[o] \in NextQueues(st.queues[o])
    /\ st2.shared_queue # <<>> <=> st.shared_queue # <<>>
    /\ st.shared_queue # <<>> =>
          st2.shared_queue[1] \in NextQueues(st.shared_queue[1])
    /\ DOMAIN st2.groups = DOMAIN st.groups
    /\ \A i \in DOMAIN st.groups :
          st2.groups[i].queue \in NextQueues(st.groups[i].queue)

\* every queue of st is, in st2, as it was or the queue one next() makes of it
AdvancedAtMostOnce(st, st2) ==
    /\ DOMAIN st2.queues = DOMAIN st.queues
    /\ \A o \in DOMAIN st.queues :
          st2.queues[o] \in {st.queues[o]} \cup NextQueues(st.queues[o])
    /\ st2.shared_queue # <<>> <=> st.shared_queue # <<>>
    /\ st.shared_queue # <<>> =>
          st2.shared_queue[1] \in {st.shared_queue[1]} \cup NextQueues(st.shared_queue[1])
    /\ DOMAIN st2.groups = DOMAIN st.groups
    /\ \A i \in DOMAIN st.groups :
          st2.groups[i].queue \in {st.groups[i].queue} \cup NextQueues(st.groups[i].queue)

\* two clients have been answered, the second after the tick loop took a
\* turn while both handlers were under way or done
C39_Witness ==
    /\ \A w \in Workers : workers[w].pc = "done"
    /\ last.cmd = "Next"
    /\ last.response = "Success"
    /\ save_counter >= 1
    /\ tick.pc = "idle"
    /\ \E o \in DOMAIN state.queues : Len(get_all_images(state.queues[o])) >= 2

\* C39: the queues change one whole advance at a time, whatever the
\* interleaving of the worker threads and the tick loop: the return of a
\* handler of Next without a target answered Success leaves every queue
\* advanced exactly once from what it was just before, a rotation check of
\* the tick loop leaves every queue as it was or advanced once, and no other
\* step of a running daemon touches a queue; so k requests and r rotations
\* of a queue leave it advanced k + r times
C39_Serialized ==
    [][phase = "running" =>
          /\ \A w \in Workers :
                (Returned(w) /\ last'.response = "Success")
                    => AdvancedOnce(state, state')
          /\ (tick.pc = "idle" /\ last'.cmd = "Tick")
                => AdvancedAtMostOnce(state, state')
          /\ ((\A w \in Workers : ~Returned(w)) /\ last'.cmd # "Tick")
                => QueuesOf(state') = QueuesOf(state)]_vars

\* ------------------------------------------------------------ gate
\* the commands a client can send
Commands ==
    {"Next", "Previous", "Pause", "Resume", "TogglePause", "Reload", "Status"}

\* the step is the handling of a command from state.lock() on, by a daemon
\* whose configuration file does not load
HandledUnloadable ==
    /\ Serving
    /\ phase' = phase
    /\ status.pc = "idle"
    /\ load(config_file) = <<>>
    /\ config_file' = config_file

\* a paused daemon with its queues has answered a Status request with Error,
\* its configuration file not loading
C40_Witness ==
    /\ phase = "running"
    /\ load(config_file) = <<>>
    /\ last = Step("Status", "none", "Error")
    /\ state.paused
    /\ state.queues # <<>> \/ state.shared_queue # <<>> \/ state.groups # <<>>

\* C40: a command handled while the configuration file does not load,
\* whichever command it is, is answered with Error and leaves the daemon
\* state (queues, timers, groups, shared queue, pause flag) as it was, with
\* no wallpaper-apply issued
C40_GateKeepsState ==
    [][HandledUnloadable =>
          /\ last'.cmd \in Commands
          /\ last'.response = "Error"
          /\ state' = state
          /\ applied' = <<>>
          /\ status' = status]_vars


============================================================================
